---------------------------- MODULE Spec2Model ----------------------------
(***************************************************************************)
(* A model of the quran-validator engine: the Arabic normalizer            *)
(* (src/src/normalizer.ts) and the QuranValidator class                    *)
(* (src/unnamed/part_002, lines 442-1285).                                 *)
(*                                                                         *)
(* Text is a sequence of characters.  A character is named by the Unicode  *)
(* code point it stands for; the alphabet below holds one representative   *)
(* of every character class that some rule of the normalizer, the          *)
(* validator or the fabrication analyzer tells apart.                      *)
(***************************************************************************)
EXTENDS Integers, Sequences, FiniteSets, TLC

ALEF == "U+0627 alef"
ALEF_HAMZA == "U+0623 alef with hamza above"
ALEF_WASLA == "U+0671 alef wasla"
HAMZA == "U+0621 hamza"
WAW == "U+0648 waw"
WAW_HAMZA == "U+0624 waw with hamza above"
YEH == "U+064A yeh"
YEH_HAMZA == "U+0626 yeh with hamza above"
ALEF_MAKSURA == "U+0649 alef maksura"
TEH_MARBUTA == "U+0629 teh marbuta"
HEH == "U+0647 heh"
LAM == "U+0644 lam"
NOON == "U+0646 noon"
BEH == "U+0628 beh"
TATWEEL == "U+0640 tatweel"
FATHA == "U+064E fatha"
HAMZA_ABOVE == "U+0654 hamza above"
SUPERSCRIPT_ALEF == "U+0670 superscript alef"
SMALL_HIGH_SEEN == "U+06DC small high seen"
ZWJ == "U+200D zero width joiner"
RUB_EL_HIZB == "U+06DE rub el hizb"
ARABIC_INDIC_THREE == "U+0663 arabic-indic digit three"
EASTERN_THREE == "U+06F3 extended arabic-indic digit three"
\* The ASCII digits, DigitChar[d + 1] for the digit d.
DigitChar ==
    <<"U+0030 digit zero", "U+0031 digit one", "U+0032 digit two",
      "U+0033 digit three", "U+0034 digit four", "U+0035 digit five",
      "U+0036 digit six", "U+0037 digit seven", "U+0038 digit eight",
      "U+0039 digit nine">>
DIGIT_THREE == DigitChar[4]
COLON == "U+003A colon"
HYPHEN == "U+002D hyphen-minus"
SPACE == "U+0020 space"
NEWLINE == "U+000A line feed"
LATIN_X == "U+0078 latin small letter x"
LIGATURE_ALLAH == "U+FDF2 ligature allah isolated form"
ALEF_ISOLATED == "U+FE8D alef isolated form"
MATH_NOON == "U+1EE0D arabic mathematical noon"

\* JavaScript's \s and String.prototype.trim, on the alphabet.
Whitespace == {SPACE, NEWLINE}

\* The texts: a string is a sequence of characters.  Every step that takes a
\* string and gives a string is a function on Text.
Text == Seq(STRING)

(***************************************************************************)
(* Sequence helpers.                                                       *)
(***************************************************************************)
RECURSIVE Flatten(_)
Flatten(ss) == IF ss = <<>> THEN <<>> ELSE Head(ss) \o Flatten(Tail(ss))

\* String.prototype.replace with a global single-character pattern is
\* Flatten([i \in 1..Len(s) |-> replacement at i]): every position of s is
\* replaced on its own, the lookarounds of the pattern reading the original
\* string.

\* a lookahead that skips nothing: (?=[Target]) at position i.
NextIs(s, i, Skip, Target) == i < Len(s) /\ s[i + 1] \in Target

\* (?=[Skip]*[Target]) at position i.
FollowedBy(s, i, Skip, Target) ==
    \E j \in (i + 1)..Len(s) :
        /\ s[j] \in Target
        /\ \A k \in (i + 1)..(j - 1) : s[k] \in Skip

\* (?<=[Target][Skip]*) at position i.
PrecededBy(s, i, Skip, Target) ==
    \E j \in 1..(i - 1) :
        /\ s[j] \in Target
        /\ \A k \in (j + 1)..(i - 1) : s[k] \in Skip


(***************************************************************************)
(* String.prototype.normalize('NFKC') on the alphabet: compatibility       *)
(* decomposition, canonical ordering of combining marks, canonical         *)
(* composition (Unicode Standard Annex #15).                               *)
(***************************************************************************)
\* Canonical combining class (UnicodeData.txt, field 3).
CombiningClass(c) ==
    CASE c = FATHA -> 30
      [] c = SUPERSCRIPT_ALEF -> 35
      [] c = HAMZA_ABOVE -> 230
      [] c = SMALL_HIGH_SEEN -> 230
      [] OTHER -> 0

\* Full compatibility decomposition of one character.
Decomposition(c) ==
    CASE c = ALEF_HAMZA -> <<ALEF, HAMZA_ABOVE>>
      [] c = WAW_HAMZA -> <<WAW, HAMZA_ABOVE>>
      [] c = YEH_HAMZA -> <<YEH, HAMZA_ABOVE>>
      [] c = LIGATURE_ALLAH -> <<ALEF, LAM, LAM, HEH>>
      [] c = ALEF_ISOLATED -> <<ALEF>>
      [] c = MATH_NOON -> <<NOON>>
      [] OTHER -> <<c>>

\* The primary composite of a starter and a combining mark, or the starter
\* itself when the pair has none.
Composite(starter, mark) ==
    CASE starter = ALEF /\ mark = HAMZA_ABOVE -> ALEF_HAMZA
      [] starter = WAW /\ mark = HAMZA_ABOVE -> WAW_HAMZA
      [] starter = YEH /\ mark = HAMZA_ABOVE -> YEH_HAMZA
      [] OTHER -> starter

Decompose[s \in Text] == Flatten([i \in 1..Len(s) |-> Decomposition(s[i])])

\* Canonical ordering: exchange adjacent marks out of order until none is.
CanonicalOrder[s \in Text] ==
    LET bad == {i \in 1..(Len(s) - 1) :
                   /\ CombiningClass(s[i + 1]) > 0
                   /\ CombiningClass(s[i]) > CombiningClass(s[i + 1])}
    IN  IF bad = {} THEN s
        ELSE LET i == CHOOSE k \in bad : \A m \in bad : k <= m
             IN  CanonicalOrder[[s EXCEPT ![i] = s[i + 1], ![i + 1] = s[i]]]

\* Canonical composition: out is the text composed so far, starterPos the
\* position in out of the last starter (0: none), lastClass the combining
\* class of the last character appended to out.
RECURSIVE ComposeFrom(_, _, _, _)
ComposeFrom(out, starterPos, lastClass, rest) ==
    IF rest = <<>> THEN out
    ELSE LET ch == Head(rest)
             cc == CombiningClass(ch)
             unblocked == lastClass < cc \/ lastClass = 0
             composes == /\ starterPos > 0
                         /\ unblocked
                         /\ Composite(out[starterPos], ch) # out[starterPos]
         IN  IF composes
             THEN ComposeFrom([out EXCEPT ![starterPos] = Composite(out[starterPos], ch)],
                              starterPos, lastClass, Tail(rest))
             ELSE ComposeFrom(Append(out, ch),
                              IF cc = 0 THEN Len(out) + 1 ELSE starterPos,
                              cc, Tail(rest))

NFKC[s \in Text] == ComposeFrom(<<>>, 0, 0, CanonicalOrder[Decompose[s]])

(***************************************************************************)
(* ARABIC_PATTERNS (normalizer.ts lines 6-86) as character classes.        *)
(***************************************************************************)
\* the mark class of the lookarounds: U+064B-U+065F
MarkRange == {FATHA, HAMZA_ABOVE}
\* diacritics: U+064B-U+0653, U+0655-U+065F, U+06D6-U+06ED
Diacritics == {FATHA, SMALL_HIGH_SEEN, RUB_EL_HIZB}
\* the alef class of the lookaheads: U+0627, U+0623, U+0625, U+0622, U+0671
AlefFamily == {ALEF, ALEF_HAMZA, ALEF_WASLA}
\* alefVariants: U+0623, U+0625, U+0622, U+0671
AlefVariants == {ALEF_HAMZA, ALEF_WASLA}
\* bidiControls: U+200C-U+200F, U+061C
BidiControls == {ZWJ}
\* sectionMarkers: U+06DD-U+06DE
SectionMarkers == {RUB_EL_HIZB}
\* the lookbehind class of alefBeforeNoon
Consonants == {BEH, LAM, NOON, HEH, WAW, YEH}

\* text.replace(/[Class]/, ''): without the g flag, the first match only
RemoveFirst(s, Class) ==
    LET hits == {i \in 1..Len(s) : s[i] \in Class}
        first == CHOOSE i \in hits : \A j \in hits : i <= j
    IN  IF hits = {} THEN s
        ELSE SubSeq(s, 1, first - 1) \o SubSeq(s, first + 1, Len(s))

\* text.replace(/[Class]/g, '')
Remove(s, Class) == Flatten([i \in 1..Len(s) |-> IF s[i] \in Class THEN <<>> ELSE <<s[i]>>])
\* text.replace(/[Class]/g, to)
Replace(s, Class, to) == Flatten([i \in 1..Len(s) |-> IF s[i] \in Class THEN <<to>> ELSE <<s[i]>>])

\* lines 149-167: the Uthmani heuristics that run before diacritics go.
superscriptAlef[s \in Text] == Replace(s, {SUPERSCRIPT_ALEF}, ALEF)
hamzaAboveBeforeWaw[s \in Text] ==
    Flatten([i \in 1..Len(s) |->
        IF s[i] = HAMZA_ABOVE /\ FollowedBy(s, i, MarkRange, {WAW})
        THEN <<WAW>> ELSE <<s[i]>>])
hamzaAboveAfterYa[s \in Text] ==
    Flatten([i \in 1..Len(s) |->
        IF s[i] = HAMZA_ABOVE /\ PrecededBy(s, i, MarkRange \cup {TATWEEL}, {YEH})
        THEN <<>> ELSE <<s[i]>>])
hamzaAboveBeforeAlef[s \in Text] ==
    Flatten([i \in 1..Len(s) |->
        IF s[i] = HAMZA_ABOVE /\ FollowedBy(s, i, MarkRange, AlefFamily)
        THEN <<>> ELSE <<s[i]>>])
hamzaStandaloneBeforeAlef[s \in Text] ==
    Flatten([i \in 1..Len(s) |->
        IF s[i] = HAMZA /\ FollowedBy(s, i, MarkRange, AlefFamily)
        THEN <<>> ELSE <<s[i]>>])
hamzaAbove[s \in Text] == Replace(s, {HAMZA_ABOVE}, ALEF)

UthmaniMarks[s \in Text] ==
    hamzaAbove[hamzaStandaloneBeforeAlef[hamzaAboveBeforeAlef[
        hamzaAboveAfterYa[hamzaAboveBeforeWaw[superscriptAlef[s]]]]]]

\* lines 197-204: hamza carriers.
yaHamzaBeforeWaw[s \in Text] ==
    Flatten([i \in 1..Len(s) |->
        IF s[i] = YEH_HAMZA /\ i < Len(s) /\ s[i + 1] = WAW
        THEN <<WAW>> ELSE <<s[i]>>])
yaHamzaAfterYa[s \in Text] ==
    Flatten([i \in 1..Len(s) |->
        IF s[i] = YEH_HAMZA /\ i > 1 /\ s[i - 1] = YEH
        THEN <<>> ELSE <<s[i]>>])
wawHamza[s \in Text] == Replace(s, {WAW_HAMZA}, WAW)
yaHamza[s \in Text] == Replace(s, {YEH_HAMZA}, YEH)
HamzaCarriers[s \in Text] ==
    yaHamza[yaHamzaAfterYa[yaHamzaBeforeWaw[wawHamza[s]]]]

\* lines 209-215: digits to ASCII.
arabicIndicDigits[s \in Text] == Replace(s, {ARABIC_INDIC_THREE}, DIGIT_THREE)
easternArabicDigits[s \in Text] == Replace(s, {EASTERN_THREE}, DIGIT_THREE)
normalizeDigits[s \in Text] == easternArabicDigits[arabicIndicDigits[s]]

\* String.prototype.trim
TrimStart[s \in Text] ==
    IF s # <<>> /\ Head(s) \in Whitespace THEN TrimStart[Tail(s)] ELSE s
TrimEnd[s \in Text] ==
    IF s # <<>> /\ s[Len(s)] \in Whitespace
    THEN TrimEnd[SubSeq(s, 1, Len(s) - 1)] ELSE s
Trim[s \in Text] == TrimEnd[TrimStart[s]]

\* line 220: text.replace(/\s+/g, ' ').trim()
multipleSpaces[s \in Text] ==
    Flatten([i \in 1..Len(s) |->
        IF s[i] \in Whitespace
        THEN (IF i > 1 /\ s[i - 1] \in Whitespace THEN <<>> ELSE <<SPACE>>)
        ELSE <<s[i]>>])
NormalizeWhitespace[s \in Text] == Trim[multipleSpaces[s]]

\* (?=\s|$) after position i
AtWordEnd(s, i) == i = Len(s) \/ s[i + 1] \in Whitespace

\* lines 227-236: the word-boundary corrections.
alefBeforeNoon[s \in Text] ==
    Flatten([i \in 1..Len(s) |->
        IF /\ s[i] = ALEF
           /\ i > 1 /\ s[i - 1] \in Consonants
           /\ i < Len(s) /\ s[i + 1] = NOON
        THEN <<>> ELSE <<s[i]>>])
alefAfterYaAtEnd[s \in Text] ==
    Flatten([i \in 1..Len(s) |->
        IF s[i] = ALEF /\ i > 1 /\ s[i - 1] = YEH /\ AtWordEnd(s, i)
        THEN <<>> ELSE <<s[i]>>])
lamAlefHehAtEnd[s \in Text] ==
    Flatten([i \in 1..Len(s) |->
        IF /\ s[i] = ALEF
           /\ i > 1 /\ s[i - 1] = LAM
           /\ i < Len(s) /\ s[i + 1] = HEH /\ AtWordEnd(s, i + 1)
        THEN <<>> ELSE <<s[i]>>])
WordBoundary[s \in Text] == lamAlefHehAtEnd[alefAfterYaAtEnd[alefBeforeNoon[s]]]

\* DEFAULT_OPTIONS (normalizer.ts lines 91-103)
NORMALIZER_DEFAULTS ==
    [removeDiacritics |-> TRUE, normalizeAlef |-> TRUE,
     normalizeAlefMaqsura |-> TRUE, normalizeTehMarbuta |-> TRUE,
     removeTatweel |-> TRUE, normalizeHamza |-> TRUE,
     normalizeWhitespace |-> TRUE, normalizePresentationForms |-> TRUE,
     normalizeDigits |-> TRUE, stripBidiControls |-> TRUE,
     applyUthmaniHeuristics |-> TRUE]

\* the global replacements of lines 136-193, one for each pattern
stripBidiControls[s \in Text] == Remove(s, BidiControls)
removeSectionMarkers[s \in Text] == Remove(s, SectionMarkers)
removeDiacritics[s \in Text] == Remove(s, Diacritics)
normalizeAlef[s \in Text] == Replace(s, AlefVariants, ALEF)
normalizeAlefMaqsura[s \in Text] == Replace(s, {ALEF_MAKSURA}, YEH)
normalizeTehMarbuta[s \in Text] == Replace(s, {TEH_MARBUTA}, HEH)
removeTatweel[s \in Text] == Remove(s, {TATWEEL})

\* "if (opts.flag) { text = pass(text) }": the pass when the option is set,
\* the text as it is when it is not.
Unchanged[s \in Text] == s
WhenSet(flag, pass) == IF flag THEN pass ELSE Unchanged

\* normalizeArabic(text, options) with opts = {...DEFAULT_OPTIONS, ...options}
normalizeArabic(text, opts) ==
    LET r1 == WhenSet(opts.normalizePresentationForms, NFKC)[text]
        r2 == WhenSet(opts.stripBidiControls, stripBidiControls)[r1]
        r3 == removeSectionMarkers[r2]
        r4 == WhenSet(opts.applyUthmaniHeuristics, UthmaniMarks)[r3]
        r5 == WhenSet(opts.removeDiacritics, removeDiacritics)[r4]
        r6 == WhenSet(opts.normalizeAlef, normalizeAlef)[r5]
        r7 == WhenSet(opts.normalizeAlefMaqsura, normalizeAlefMaqsura)[r6]
        r8 == WhenSet(opts.normalizeTehMarbuta, normalizeTehMarbuta)[r7]
        r9 == WhenSet(opts.removeTatweel, removeTatweel)[r8]
        r10 == WhenSet(opts.normalizeHamza, HamzaCarriers)[r9]
        r11 == WhenSet(opts.normalizeDigits, normalizeDigits)[r10]
        r12 == WhenSet(opts.normalizeWhitespace, NormalizeWhitespace)[r11]
    IN  WhenSet(opts.applyUthmaniHeuristics, WordBoundary)[r12]

\* containsArabic (normalizer.ts lines 266-276): the characters of the
\* alphabet inside U+0600-06FF, U+0750-077F, U+08A0-08FF, U+FB50-FDFF,
\* U+FE70-FEFF.
ArabicRange ==
    {ALEF, ALEF_HAMZA, ALEF_WASLA, HAMZA, WAW, WAW_HAMZA, YEH, YEH_HAMZA,
     ALEF_MAKSURA, TEH_MARBUTA, HEH, LAM, NOON, BEH, TATWEEL, FATHA,
     HAMZA_ABOVE, SUPERSCRIPT_ALEF, SMALL_HIGH_SEEN, RUB_EL_HIZB,
     ARABIC_INDIC_THREE, EASTERN_THREE, LIGATURE_ALLAH, ALEF_ISOLATED}
\* a test that takes every non-empty text for Arabic
containsAnyCharacter(text) == text # <<>>

containsArabic(text) == \E i \in 1..Len(text) : text[i] \in ArabicRange


(***************************************************************************)
(* The reference data (data/quran-verses.min.json and data/riwayat/*.json) *)
(* and the validator's options.                                            *)
(***************************************************************************)
\* A QuranVerse: page stands for the fields textSimple, page and juz, which
\* the primary data fills and a riwaya entry's verse leaves empty (page 0).
Verse(id, surah, ayah, text, page) ==
    [id |-> id, surah |-> surah, ayah |-> ayah, text |-> text, page |-> page]

\* A MinimalVerse row of a riwaya file.
Row(id, surah, ayah, text) ==
    [id |-> id, surah |-> surah, ayah |-> ayah, text |-> text]

\* scripts/fetch-kfgqpc-data.ts lines 93-103: hafs.min.json is the primary
\* data, field by field.
HafsRows(vs) == [i \in 1..Len(vs) |-> Row(vs[i].id, vs[i].surah, vs[i].ayah, vs[i].text)]

\* a normalizeFabrication that leaves out the standalone hamza
normalizeWithoutHamza(text) == Remove(normalizeArabic(text, NORMALIZER_DEFAULTS), {HAMZA})

\* normalizeFabrication: normalizeArabic(text, { stripHamza: true }).  The
\* normalizer spreads the option over its defaults and reads no stripHamza.
normalizeFabrication(text) == normalizeArabic(text, NORMALIZER_DEFAULTS)

\* DEFAULT_OPTIONS.maxSuggestions
maxSuggestions == 3

(***************************************************************************)
(* Map<string, T[]>: a function from the keys present to their lists.      *)
(***************************************************************************)
EmptyMap == [k \in {} |-> <<>>]
MapGet(m, k) == IF k \in DOMAIN m THEN m[k] ELSE <<>>
MapHas(m, k) == k \in DOMAIN m
\* const l = m.get(k) || []; l.push(v); m.set(k, l)
MapPush(m, k, v) ==
    [x \in DOMAIN m \cup {k} |-> IF x = k THEN Append(MapGet(m, k), v) ELSE m[x]]

\* Array.prototype.join(' ')
RECURSIVE Join(_)
Join(parts) ==
    IF parts = <<>> THEN <<>>
    ELSE IF Len(parts) = 1 THEN parts[1]
    ELSE parts[1] \o <<SPACE>> \o Join(Tail(parts))

(***************************************************************************)
(* The constructor (part_002 lines 558-634).                               *)
(***************************************************************************)
\* a base map keyed by the verse text as written
RECURSIVE BuildVerseMapAsWritten(_, _)
BuildVerseMapAsWritten(m, vs) ==
    IF vs = <<>> THEN m
    ELSE BuildVerseMapAsWritten(MapPush(m, Head(vs).text, Head(vs)), Tail(vs))

\* lines 577-586: the Hafs base map, in corpus order
RECURSIVE BuildNormalizedVerseMap(_, _)
BuildNormalizedVerseMap(m, vs) ==
    IF vs = <<>> THEN m
    ELSE BuildNormalizedVerseMap(
             MapPush(m, normalizeFabrication(Head(vs).text), Head(vs)), Tail(vs))

\* lines 596-610: the entry made of one riwaya row
RiwayaEntry(riwayaId, rv) ==
    [verse |-> Verse(rv.id, rv.surah, rv.ayah, rv.text, 0),
     riwayaId |-> riwayaId,
     originalText |-> rv.text]

\* entries of the riwayat other than hafs only
RiwayaEntriesOfOthers(loaded, data) ==
    IF Len(loaded) > 1
    THEN Flatten([r \in 1..Len(loaded) |->
             IF loaded[r] = "hafs" THEN <<>>
             ELSE [i \in 1..Len(data[loaded[r]]) |->
                      RiwayaEntry(loaded[r], data[loaded[r]][i])]])
    ELSE <<>>

\* lines 589-630: the entries in the order the two loops make them
RiwayaEntries(loaded, data) ==
    IF Len(loaded) > 1
    THEN Flatten([r \in 1..Len(loaded) |->
             [i \in 1..Len(data[loaded[r]]) |->
                 RiwayaEntry(loaded[r], data[loaded[r]][i])]])
    ELSE <<>>

RECURSIVE BuildExactTextMap(_, _)
BuildExactTextMap(m, es) ==
    IF es = <<>> THEN m
    ELSE BuildExactTextMap(MapPush(m, Head(es).verse.text, Head(es)), Tail(es))

RECURSIVE BuildNormalizedRiwayaMap(_, _)
BuildNormalizedRiwayaMap(m, es) ==
    IF es = <<>> THEN m
    ELSE BuildNormalizedRiwayaMap(
             MapPush(m, normalizeFabrication(Head(es).verse.text), Head(es)), Tail(es))

\* a corpus of the primary texts alone
CorpusTextsPrimaryOnly(vs, entries) ==
    [i \in 1..Len(vs) |-> normalizeFabrication(vs[i].text)]

\* lines 574, 585, 625-627: corpusTexts
CorpusTexts(vs, entries) ==
    [i \in 1..Len(vs) |-> normalizeFabrication(vs[i].text)]
    \o LET other == SelectSeq(entries, LAMBDA e : e.riwayaId # "hafs")
       IN  [i \in 1..Len(other) |-> normalizeFabrication(other[i].verse.text)]


(***************************************************************************)
(* The validator instance: the fields of class QuranValidator              *)
(* (part_002 lines 540-556) and the call in progress.                      *)
(***************************************************************************)
VARIABLES
    verses,               \* this.verses (versesData)
    riwayaVerses,         \* this.riwayaVerses: riwaya id -> rows
    loadedRiwayat,        \* this.loadedRiwayat (options.riwayat)
    multiRiwaya,          \* this.multiRiwaya
    normalizedVerseMap,   \* this.normalizedVerseMap
    exactTextMap,         \* this.exactTextMap
    normalizedRiwayaMap,  \* this.normalizedRiwayaMap
    normalizedCorpus,     \* this.normalizedCorpus
    op,                   \* the operation last called ("idle": none)
    text,                 \* its text argument
    reference,            \* its reference argument
    result                \* what it returned

index == <<verses, riwayaVerses, loadedRiwayat, multiRiwaya, normalizedVerseMap,
           exactTextMap, normalizedRiwayaMap, normalizedCorpus>>
vars == <<verses, riwayaVerses, loadedRiwayat, multiRiwaya, normalizedVerseMap,
          exactTextMap, normalizedRiwayaMap, normalizedCorpus,
          op, text, reference, result>>

\* Number.prototype.toString, for a natural number
RECURSIVE NumberToString(_)
NumberToString(n) ==
    IF n < 10 THEN <<DigitChar[n + 1]>>
    ELSE NumberToString(n \div 10) \o <<DigitChar[(n % 10) + 1]>>

\* `${verse.surah}:${verse.ayah}`
ReferenceOf(v) == NumberToString(v.surah) \o <<COLON>> \o NumberToString(v.ayah)

\* a result whose reference is made of the verse's id and ayah
createResultById(verse, matchType, normalizedInput) ==
    [isValid |-> TRUE, matchType |-> matchType, matchedVerse |-> verse,
     reference |-> NumberToString(verse.id) \o <<COLON>> \o NumberToString(verse.ayah),
     normalizedInput |-> normalizedInput]

\* createResult (lines 1229-1241)
createResult(verse, matchType, normalizedInput) ==
    [isValid |-> TRUE, matchType |-> matchType, matchedVerse |-> verse,
     reference |-> ReferenceOf(verse), normalizedInput |-> normalizedInput]

\* noMatch (lines 1243-1249)
noMatch(normalizedInput) ==
    [isValid |-> FALSE, matchType |-> "none", normalizedInput |-> normalizedInput]

\* a search that returns the last verse with the text
findLastExactMatch(t) ==
    LET hits == SelectSeq(verses, LAMBDA v : v.text = t)
    IN  IF hits = <<>> THEN <<>> ELSE <<hits[Len(hits)]>>

\* a search that returns the first verse whose text starts with the input
findPrefixMatch(t) ==
    LET hits == SelectSeq(verses, LAMBDA v :
                    Len(t) <= Len(v.text) /\ SubSeq(v.text, 1, Len(t)) = t)
    IN  IF hits = <<>> THEN <<>> ELSE <<hits[1]>>

\* findExactMatch (lines 1225-1227): Array.prototype.find, as the list of
\* what it finds (empty: undefined)
findExactMatch(t) ==
    LET hits == SelectSeq(verses, LAMBDA v : v.text = t)
    IN  IF hits = <<>> THEN <<>> ELSE <<hits[1]>>

\* a slice that leaves the first element out
SliceRest(s, n) == SubSeq(s, 2, IF Len(s) < n + 1 THEN Len(s) ELSE n + 1)

\* Array.prototype.slice(0, n)
Slice(s, n) == SubSeq(s, 1, IF Len(s) < n THEN Len(s) ELSE n)

\* .map((v) => ({ verse: v, reference: `${v.surah}:${v.ayah}` }))
Suggestions(vs) == [i \in 1..Len(vs) |-> [verse |-> vs[i], reference |-> ReferenceOf(vs[i])]]

\* a sort that orders 'exact' after everything else
SortExactLast(ms) ==
    SelectSeq(ms, LAMBDA m : m.matchType # "exact")
    \o SelectSeq(ms, LAMBDA m : m.matchType = "exact")

\* The sort of lines 1136-1140 and 1216-1220: Array.prototype.sort is
\* stable, and the comparator orders 'exact' before everything else.
SortExactFirst(ms) ==
    SelectSeq(ms, LAMBDA m : m.matchType = "exact")
    \o SelectSeq(ms, LAMBDA m : m.matchType # "exact")

\* a match that is labelled exact whatever it was found by
RiwayaMatchLabelledExact(entry, matchType) ==
    [riwaya |-> entry.riwayaId, matchType |-> "exact",
     verse |-> entry.verse, riwayaText |-> entry.originalText]

RiwayaMatch(entry, matchType) ==
    [riwaya |-> entry.riwayaId, matchType |-> matchType,
     verse |-> entry.verse, riwayaText |-> entry.originalText]

\* a loop that appends every normalized entry
AddEveryNormalizedMatch(matches, entries) ==
    matches \o [i \in 1..Len(entries) |-> RiwayaMatch(entries[i], "normalized")]

\* lines 1111-1129: the normalized entries that no earlier match duplicates
RECURSIVE AddNormalizedMatches(_, _)
AddNormalizedMatches(matches, entries) ==
    IF entries = <<>> THEN matches
    ELSE LET entry == Head(entries)
             isDuplicate ==
                 \E k \in 1..Len(matches) :
                     /\ matches[k].riwaya = entry.riwayaId
                     /\ matches[k].verse.surah = entry.verse.surah
                     /\ matches[k].verse.ayah = entry.verse.ayah
         IN  AddNormalizedMatches(
                 IF isDuplicate THEN matches
                 ELSE Append(matches, RiwayaMatch(entry, "normalized")),
                 Tail(entries))

\* the verses of all the matches, repeated ones included
EveryVerse(seen, ms) == seen \o [i \in 1..Len(ms) |-> ms[i].verse]

\* lines 1154-1160: the verses of uniqueVerses, in insertion order
RECURSIVE UniqueVerses(_, _)
UniqueVerses(seen, ms) ==
    IF ms = <<>> THEN seen
    ELSE LET v == Head(ms).verse
             has == \E k \in 1..Len(seen) : ReferenceOf(seen[k]) = ReferenceOf(v)
         IN  UniqueVerses(IF has THEN seen ELSE Append(seen, v), Tail(ms))

\* validateMultiRiwaya (lines 1090-1168)
validateMultiRiwaya(trimmedText, normalizedInput, lookupKey) ==
    LET exactEntries == MapGet(exactTextMap, trimmedText)
        exact == [i \in 1..Len(exactEntries) |-> RiwayaMatch(exactEntries[i], "exact")]
        collected == AddNormalizedMatches(exact, MapGet(normalizedRiwayaMap, lookupKey))
        riwayaMatches == SortExactFirst(collected)
        best == riwayaMatches[1]
        res == [isValid |-> TRUE, matchType |-> best.matchType,
                matchedVerse |-> best.verse, reference |-> ReferenceOf(best.verse),
                normalizedInput |-> normalizedInput, riwayaMatches |-> riwayaMatches]
        uniqueVerses == UniqueVerses(<<>>, riwayaMatches)
    IN  IF collected = <<>> THEN noMatch(normalizedInput)
        ELSE IF Len(uniqueVerses) > 1
        THEN [isValid |-> TRUE, matchType |-> best.matchType,
              matchedVerse |-> best.verse, reference |-> ReferenceOf(best.verse),
              normalizedInput |-> normalizedInput, riwayaMatches |-> riwayaMatches,
              suggestions |-> Suggestions(Slice(uniqueVerses, maxSuggestions))]
        ELSE res

\* validate (lines 651-695)
validate(t) ==
    LET trimmedText == Trim[t]
        normalizedInput == normalizeArabic(trimmedText, NORMALIZER_DEFAULTS)
        lookupKey == normalizeFabrication(trimmedText)
        exactMatch == findExactMatch(trimmedText)
        normalizedMatches == MapGet(normalizedVerseMap, lookupKey)
        primary == createResult(normalizedMatches[1], "normalized", normalizedInput)
    IN  IF ~containsArabic(trimmedText) THEN noMatch(normalizedInput)
        ELSE IF multiRiwaya
        THEN validateMultiRiwaya(trimmedText, normalizedInput, lookupKey)
        ELSE IF exactMatch # <<>>
        THEN createResult(exactMatch[1], "exact", normalizedInput)
        ELSE IF Len(normalizedMatches) > 0
        THEN (IF Len(normalizedMatches) > 1
              THEN [isValid |-> TRUE, matchType |-> "normalized",
                    matchedVerse |-> normalizedMatches[1],
                    reference |-> ReferenceOf(normalizedMatches[1]),
                    normalizedInput |-> normalizedInput,
                    suggestions |-> Suggestions(Slice(normalizedMatches, maxSuggestions))]
              ELSE primary)
        ELSE noMatch(normalizedInput)


(***************************************************************************)
(* validateAgainst and the accessors it uses.                              *)
(***************************************************************************)
\* \d
IsDigit(c) == \E d \in 1..10 : DigitChar[d] = c

\* the length of the longest run of digits of s that starts at position i
RECURSIVE DigitRun(_, _)
DigitRun(s, i) ==
    IF i <= Len(s) /\ IsDigit(s[i]) THEN 1 + DigitRun(s, i + 1) ELSE 0

\* reference.match(/^(\d+):(\d+)(?:-(\d+))?$/): the groups as a one-element
\* list, or the empty list for null.  A group that took no part is <<>>.
MatchReference(ref) ==
    LET n1 == DigitRun(ref, 1)
        n2 == DigitRun(ref, n1 + 2)
        e2 == n1 + 1 + n2
        n3 == DigitRun(ref, e2 + 2)
    IN  IF n1 = 0 \/ n1 + 1 > Len(ref) \/ ref[n1 + 1] # COLON \/ n2 = 0
        THEN <<>>
        ELSE IF e2 = Len(ref)
        THEN << <<SubSeq(ref, 1, n1), SubSeq(ref, n1 + 2, e2), <<>> >> >>
        ELSE IF ref[e2 + 1] = HYPHEN /\ n3 > 0 /\ e2 + 1 + n3 = Len(ref)
        THEN << <<SubSeq(ref, 1, n1), SubSeq(ref, n1 + 2, e2),
                  SubSeq(ref, e2 + 2, Len(ref))>> >>
        ELSE <<>>

DigitValue(c) == (CHOOSE d \in 1..10 : DigitChar[d] = c) - 1

\* parseInt(digits, 10) of a run of digits
RECURSIVE parseInt(_)
parseInt(digits) ==
    IF digits = <<>> THEN 0
    ELSE 10 * parseInt(SubSeq(digits, 1, Len(digits) - 1))
         + DigitValue(digits[Len(digits)])

\* a lookup by surah alone
getVerseOfSurah(surah, ayah) ==
    LET hits == SelectSeq(verses, LAMBDA v : v.surah = surah)
    IN  IF hits = <<>> THEN <<>> ELSE <<hits[1]>>

\* getVerse (lines 874-876): Array.prototype.find, as a list
getVerse(surah, ayah) ==
    LET hits == SelectSeq(verses, LAMBDA v : v.surah = surah /\ v.ayah = ayah)
    IN  IF hits = <<>> THEN <<>> ELSE <<hits[1]>>

\* the loop of getVerseRange (lines 893-898): the verses gathered from ayah
\* on, and whether the loop ran to endAyah ("done") or met a missing ayah
RECURSIVE RangeLoop(_, _, _, _)
RangeLoop(surah, ayah, endAyah, found) ==
    IF ayah > endAyah THEN [done |-> TRUE, verses |-> found]
    ELSE IF getVerse(surah, ayah) = <<>> THEN [done |-> FALSE, verses |-> found]
    ELSE RangeLoop(surah, ayah + 1, endAyah, Append(found, getVerse(surah, ayah)[1]))

\* a range made of the verses met before the first missing ayah
getVersesFound(surah, startAyah, endAyah) ==
    LET loop == RangeLoop(surah, startAyah, endAyah, <<>>)
    IN  IF loop.verses = <<>> THEN <<>>
        ELSE << [text |-> Join([i \in 1..Len(loop.verses) |-> loop.verses[i].text]),
                 verses |-> loop.verses] >>

\* getVerseRange (lines 886-905), as a list
getVerseRange(surah, startAyah, endAyah) ==
    LET loop == RangeLoop(surah, startAyah, endAyah, <<>>)
    IN  IF startAyah > endAyah THEN <<>>
        ELSE IF ~loop.done THEN <<>>
        ELSE << [text |-> Join([i \in 1..Len(loop.verses) |-> loop.verses[i].text]),
                 verses |-> loop.verses] >>

\* the length of the shorter string
shorterLength(str1, str2) == IF Len(str1) < Len(str2) THEN Len(str1) ELSE Len(str2)

\* a comparison that reports identical strings
noMismatch(str1, str2) == -1

\* findMismatchIndex (lines 1254-1266)
findMismatchIndex(str1, str2) ==
    LET minLen == IF Len(str1) < Len(str2) THEN Len(str1) ELSE Len(str2)
        differ == {i \in 1..minLen : str1[i] # str2[i]}
    IN  IF differ # {} THEN (CHOOSE i \in differ : \A j \in differ : i <= j) - 1
        ELSE IF Len(str1) # Len(str2) THEN minLen
        ELSE -1

\* data.find(v => v.surah === surah && v.ayah === ayah), as a list
FindRow(data, surah, ayah) ==
    LET hits == SelectSeq(data, LAMBDA v : v.surah = surah /\ v.ayah = ayah)
    IN  IF hits = <<>> THEN <<>> ELSE <<hits[1]>>

\* the loop of findRiwayaMatchesForRef (lines 1181-1213) from riwaya r on
RECURSIVE RiwayaMatchesFrom(_, _, _, _)
RiwayaMatchesFrom(r, t, surah, ayah) ==
    IF r > Len(loadedRiwayat) THEN <<>>
    ELSE LET riwayaId == loadedRiwayat[r]
             row == IF MapHas(riwayaVerses, riwayaId)
                    THEN FindRow(riwayaVerses[riwayaId], surah, ayah)
                    ELSE <<>>
             verse == row[1]
             verseRef == Verse(verse.id, verse.surah, verse.ayah, verse.text, 0)
             match(matchType) ==
                 [riwaya |-> riwayaId, matchType |-> matchType,
                  verse |-> verseRef, riwayaText |-> verse.text]
             rest == RiwayaMatchesFrom(r + 1, t, surah, ayah)
         IN  IF row = <<>> THEN rest
             ELSE IF t = verse.text THEN <<match("exact")>> \o rest
             ELSE IF normalizeFabrication(t) = normalizeFabrication(verse.text)
             THEN <<match("normalized")>> \o rest
             ELSE rest

\* a lookup that finds no riwaya at the address
findNoRiwayaMatches(t, surah, ayah) == <<>>

\* findRiwayaMatchesForRef (lines 1173-1223)
findRiwayaMatchesForRef(t, surah, ayah) ==
    SortExactFirst(RiwayaMatchesFrom(1, t, surah, ayah))

\* with result.riwayaMatches set when several riwayat are loaded
\* (lines 761-763 and 779-781)
WithRiwayaMatches(res, trimmedText, surah, startAyah) ==
    IF multiRiwaya
    THEN [k \in DOMAIN res \cup {"riwayaMatches"} |->
             IF k = "riwayaMatches"
             THEN findRiwayaMatchesForRef(trimmedText, surah, startAyah)
             ELSE res[k]]
    ELSE res

\* validateAgainst (lines 714-813)
validateAgainst(t, ref) ==
    LET trimmedText == Trim[t]
        normalizedInput == normalizeArabic(trimmedText, NORMALIZER_DEFAULTS)
        rangeMatch == MatchReference(ref)
        surah == parseInt(rangeMatch[1][1])
        startAyah == parseInt(rangeMatch[1][2])
        endAyah == IF rangeMatch[1][3] # <<>> THEN parseInt(rangeMatch[1][3])
                   ELSE startAyah
        single == getVerse(surah, startAyah)
        range == getVerseRange(surah, startAyah, endAyah)
        found == IF startAyah = endAyah THEN single # <<>> ELSE range # <<>>
        expectedText == IF startAyah = endAyah THEN single[1].text ELSE range[1].text
        matchedVerse == IF startAyah = endAyah THEN single[1] ELSE range[1].verses[1]
        expectedNormalized == normalizeArabic(expectedText, NORMALIZER_DEFAULTS)
        inputLookup == normalizeFabrication(trimmedText)
        expectedLookup == normalizeFabrication(expectedText)
        matched(matchType) ==
            WithRiwayaMatches(
                [isValid |-> TRUE, matchType |-> matchType,
                 matchedVerse |-> matchedVerse, reference |-> ref,
                 normalizedInput |-> normalizedInput,
                 expectedNormalized |-> expectedNormalized],
                trimmedText, surah, startAyah)
        riwayaMatches == findRiwayaMatchesForRef(trimmedText, surah, startAyah)
    IN  IF rangeMatch = <<>> THEN noMatch(normalizedInput)
        ELSE IF ~found THEN noMatch(normalizedInput)
        ELSE IF trimmedText = expectedText THEN matched("exact")
        ELSE IF inputLookup = expectedLookup THEN matched("normalized")
        ELSE IF multiRiwaya /\ startAyah = endAyah /\ Len(riwayaMatches) > 0
        THEN [isValid |-> TRUE, matchType |-> riwayaMatches[1].matchType,
              matchedVerse |-> riwayaMatches[1].verse, reference |-> ref,
              normalizedInput |-> normalizedInput,
              expectedNormalized |-> expectedNormalized,
              riwayaMatches |-> riwayaMatches]
        ELSE [isValid |-> FALSE, matchType |-> "none", reference |-> ref,
              normalizedInput |-> normalizedInput,
              expectedNormalized |-> expectedNormalized,
              mismatchIndex |-> findMismatchIndex(inputLookup, expectedLookup)]

(***************************************************************************)
(* analyzeFabrication.                                                     *)
(***************************************************************************)
\* s.split(/\s+/).filter(Boolean): the maximal runs of non-whitespace
RECURSIVE SplitWords(_, _)
SplitWords(s, word) ==
    IF s = <<>> THEN (IF word = <<>> THEN <<>> ELSE <<word>>)
    ELSE IF Head(s) \in Whitespace
    THEN (IF word = <<>> THEN <<>> ELSE <<word>>) \o SplitWords(Tail(s), <<>>)
    ELSE SplitWords(Tail(s), Append(word, Head(s)))

\* a search that finds the needle only as whole words of the haystack
IncludesWords(haystack, needle) ==
    LET hay == SplitWords(haystack, <<>>)
        ndl == SplitWords(needle, <<>>)
    IN  \E i \in 0..(Len(hay) - Len(ndl)) : SubSeq(hay, i + 1, i + Len(ndl)) = ndl

\* String.prototype.includes
Includes(haystack, needle) ==
    \E i \in 0..(Len(haystack) - Len(needle)) :
        SubSeq(haystack, i + 1, i + Len(needle)) = needle

\* a search that tries the first word alone
FirstWordMatch(fabricationWords, i, lo, hi, best) ==
    IF lo <= hi /\ Includes(normalizedCorpus, fabricationWords[i + 1]) THEN 1 ELSE best

\* a search that tries all the remaining words together
WholeRestMatch(fabricationWords, i, lo, hi, best) ==
    IF lo <= hi /\ Includes(normalizedCorpus,
                            Join(SubSeq(fabricationWords, i + 1, i + hi)))
    THEN hi ELSE best

\* the binary search of lines 1013-1024 for the words from position i
\* (0-based): the value of best when lo passes hi
RECURSIVE LongestMatch(_, _, _, _, _)
LongestMatch(fabricationWords, i, lo, hi, best) ==
    IF lo > hi THEN best
    ELSE LET mid == (lo + hi) \div 2
             candidate == Join(SubSeq(fabricationWords, i + 1, i + mid))
         IN  IF Includes(normalizedCorpus, candidate)
             THEN LongestMatch(fabricationWords, i, mid + 1, hi, mid)
             ELSE LongestMatch(fabricationWords, i, lo, mid - 1, best)

\* a loop that reports a matched run of words as one entry
RECURSIVE AnalyzeRunsFrom(_, _, _)
AnalyzeRunsFrom(words, fabricationWords, i) ==
    IF i >= Len(fabricationWords) THEN <<>>
    ELSE LET best == LongestMatch(fabricationWords, i, 1,
                                  Len(fabricationWords) - i, 0)
         IN  IF best > 0
             THEN <<[word |-> words[i + 1], isFabricated |-> FALSE]>>
                  \o AnalyzeRunsFrom(words, fabricationWords, i + best)
             ELSE <<[word |-> words[i + 1], isFabricated |-> TRUE]>>
                  \o AnalyzeRunsFrom(words, fabricationWords, i + 1)

\* the loop of lines 1006-1038: the results pushed from position i on
RECURSIVE AnalyzeFrom(_, _, _)
AnalyzeFrom(words, fabricationWords, i) ==
    IF i >= Len(fabricationWords) THEN <<>>
    ELSE LET best == LongestMatch(fabricationWords, i, 1,
                                  Len(fabricationWords) - i, 0)
         IN  IF best > 0
             THEN [j \in 1..best |-> [word |-> words[i + j], isFabricated |-> FALSE]]
                  \o AnalyzeFrom(words, fabricationWords, i + best)
             ELSE <<[word |-> words[i + 1], isFabricated |-> TRUE]>>
                  \o AnalyzeFrom(words, fabricationWords, i + 1)

\* a quotient of two counts, kept as the pair it is computed from
Ratio(num, den) == [num |-> num, den |-> den]

\* analyzeFabrication (lines 986-1051)
analyzeFabrication(t) ==
    LET normalizedInput == normalizeArabic(t, NORMALIZER_DEFAULTS)
        fabricationNormalized == normalizeFabrication(t)
        words == SplitWords(normalizedInput, <<>>)
        fabricationWords == SplitWords(fabricationNormalized, <<>>)
        results == AnalyzeFrom(words, fabricationWords, 0)
        fabricatedWords == Len(SelectSeq(results, LAMBDA w : w.isFabricated))
    IN  IF Len(words) = 0
        THEN [normalizedInput |-> normalizedInput, words |-> <<>>,
              stats |-> [totalWords |-> 0, fabricatedWords |-> 0,
                         fabricatedRatio |-> Ratio(0, 1)]]
        ELSE [normalizedInput |-> normalizedInput, words |-> results,
              stats |-> [totalWords |-> Len(results),
                         fabricatedWords |-> fabricatedWords,
                         fabricatedRatio |->
                             IF Len(results) > 0
                             THEN Ratio(fabricatedWords, Len(results))
                             ELSE Ratio(0, 1)]]

(***************************************************************************)
(* search and getSurah.                                                    *)
(***************************************************************************)
\* base + ratio * 0.3 for base = tenths / 10 and ratio = part / whole, kept
\* as a quotient of integers
Similarity(tenths, part, whole) == Ratio(tenths * whole + 3 * part, 10 * whole)

\* lines 949-960: what the loop of search pushes for one verse
SearchHit(verse, normalizedQuery) ==
    LET normalizedVerse == normalizeArabic(verse.text, NORMALIZER_DEFAULTS)
    IN  IF Includes(normalizedVerse, normalizedQuery)
        THEN <<[verse |-> verse,
                similarity |-> Similarity(7, Len(normalizedQuery), Len(normalizedVerse))]>>
        ELSE IF Includes(normalizedQuery, normalizedVerse)
        THEN <<[verse |-> verse,
                similarity |-> Similarity(5, Len(normalizedVerse), Len(normalizedQuery))]>>
        ELSE <<>>

\* x.similarity > y.similarity
MoreSimilar(x, y) ==
    x.similarity.num * y.similarity.den > y.similarity.num * x.similarity.den

\* .sort((a, b) => b.similarity - a.similarity): by falling similarity, hits
\* of one similarity in the order they were pushed
RECURSIVE SortBySimilarity(_)
SortBySimilarity(rs) ==
    IF rs = <<>> THEN <<>>
    ELSE LET sorted == SortBySimilarity(SubSeq(rs, 1, Len(rs) - 1))
             last == rs[Len(rs)]
             k == Cardinality({i \in 1..Len(sorted) : ~MoreSimilar(last, sorted[i])})
         IN  SubSeq(sorted, 1, k) \o <<last>> \o SubSeq(sorted, k + 1, Len(sorted))

\* search (lines 941-966)
search(query, limit) ==
    LET normalizedQuery == normalizeArabic(query, NORMALIZER_DEFAULTS)
        results == Flatten([i \in 1..Len(verses) |-> SearchHit(verses[i], normalizedQuery)])
    IN  Slice(SortBySimilarity(results), limit)

\* surahsData: the surahs of versesData with their numbers of verses
SurahsData == <<[number |-> 1, versesCount |-> 2], [number |-> 2, versesCount |-> 1]>>

\* getSurah (lines 923-925): Array.prototype.find, as the list of what it
\* finds
getSurah(surahNumber) ==
    LET hits == SelectSeq(SurahsData, LAMBDA x : x.number = surahNumber)
    IN  IF hits = <<>> THEN <<>> ELSE <<hits[1]>>

(***************************************************************************)
(* Bounds and the inputs drawn within them.                                *)
(***************************************************************************)
\* the longest text passed to normalizeArabic on its own
MaxNormLen == 3
\* the longest text passed to validate
MaxTextLen == 3
\* the longest free-form reference passed to validateAgainst
MaxRefLen == 3
\* the largest surah or ayah number written in a well-formed reference
MaxRefNumber == 3
\* the longest free-form text passed to validateAgainst
MaxAgainstLen == 1
\* the longest text passed to analyzeFabrication
MaxFabLen == 5

\* the longest query passed to search
MaxSearchLen == 2

\* the longest text passed to analyzeFabrication when its loop is followed
MaxScanLen == 7

\* every text of at most n characters of Alphabet
Texts(Alphabet, n) == UNION {[1..k -> Alphabet] : k \in 0..n}

NormAlphabet ==
    {ALEF, ALEF_HAMZA, ALEF_WASLA, HAMZA, WAW, WAW_HAMZA, YEH, YEH_HAMZA,
     ALEF_MAKSURA, TEH_MARBUTA, HEH, LAM, NOON, BEH, TATWEEL, FATHA,
     HAMZA_ABOVE, SUPERSCRIPT_ALEF, SMALL_HIGH_SEEN, ZWJ, RUB_EL_HIZB,
     ARABIC_INDIC_THREE, EASTERN_THREE, DIGIT_THREE, SPACE, NEWLINE, LATIN_X,
     LIGATURE_ALLAH, ALEF_ISOLATED, MATH_NOON}

\* The option objects passed to normalizeArabic: the defaults, and the
\* defaults with one stage switched off.
OptionSets ==
    {NORMALIZER_DEFAULTS,
     [NORMALIZER_DEFAULTS EXCEPT !.applyUthmaniHeuristics = FALSE],
     [NORMALIZER_DEFAULTS EXCEPT !.normalizePresentationForms = FALSE],
     [NORMALIZER_DEFAULTS EXCEPT !.removeDiacritics = FALSE]}

ValidateAlphabet == {BEH, NOON, FATHA, SPACE, LATIN_X, MATH_NOON}

RefAlphabet == {DigitChar[2], DigitChar[3], COLON, HYPHEN}

FabAlphabet == {BEH, NOON, SPACE, LATIN_X}

(***************************************************************************)
(* The reference data the model runs on.  As in the bundled files, every   *)
(* text is trimmed, non-empty and Arabic, ids count from 1 and the ayahs   *)
(* of a surah count from 1 without gaps.                                   *)
(***************************************************************************)
VerseTexts == {<<NOON, FATHA>>, <<NOON, FATHA, FATHA>>, <<BEH, SPACE, NOON>>}

\* versesData: 1:1 and 1:2 with the texts f, and 2:1
VersesData(f) ==
    <<Verse(1, 1, 1, f[1], 1), Verse(2, 1, 2, f[2], 1),
      Verse(3, 2, 1, <<BEH, SPACE, NOON>>, 2)>>
\* warsh.min.json
WarshData == <<Row(1, 1, 1, <<NOON, FATHA>>), Row(2, 1, 2, <<BEH, FATHA, NOON>>)>>
\* qalun.min.json
QalunData == <<Row(1, 1, 1, <<NOON, FATHA, FATHA>>), Row(2, 2, 2, <<BEH, NOON>>)>>

\* RIWAYA_DATA_MAP (part_002 lines 492-501)
RIWAYA_DATA_MAP(f) ==
    [hafs |-> HafsRows(VersesData(f)), warsh |-> WarshData, qalun |-> QalunData]

\* the riwayat option
RiwayatOptions ==
    {<<"hafs">>, <<"warsh">>, <<"hafs", "warsh">>, <<"warsh", "hafs">>,
     <<"warsh", "qalun">>}

Range(s) == {s[i] : i \in 1..Len(s)}

\* new QuranValidator({ riwayat }) on the bundled data versesData and
\* RIWAYA_DATA_MAP = data
ConstructOn(versesData, data, riwayat) ==
    LET entries == RiwayaEntries(riwayat, data)
    IN  /\ verses = versesData
        /\ loadedRiwayat = riwayat
        /\ multiRiwaya = (Len(riwayat) > 1)
        /\ riwayaVerses = [r \in Range(riwayat) |-> data[r]]
        /\ normalizedVerseMap = BuildNormalizedVerseMap(EmptyMap, versesData)
        /\ exactTextMap = BuildExactTextMap(EmptyMap, entries)
        /\ normalizedRiwayaMap = BuildNormalizedRiwayaMap(EmptyMap, entries)
        /\ normalizedCorpus = Join(CorpusTexts(versesData, entries))

\* new QuranValidator({ riwayat }) on the data f
Construct(f, riwayat) == ConstructOn(VersesData(f), RIWAYA_DATA_MAP(f), riwayat)

Idle ==
    /\ op = "idle"
    /\ text = <<>>
    /\ reference = <<>>
    /\ result = [isValid |-> FALSE]

Init ==
    /\ \E f \in [1..2 -> VerseTexts], r \in RiwayatOptions : Construct(f, r)
    /\ Idle

\* The caller takes the result; the validator is ready for the next call.
Return ==
    /\ op # "idle"
    /\ op' = "idle"
    /\ text' = <<>>
    /\ reference' = <<>>
    /\ result' = [isValid |-> FALSE]
    /\ UNCHANGED index

(***************************************************************************)
(* The normalizer on its own.                                              *)
(***************************************************************************)
InitNormalize ==
    /\ Construct([i \in 1..2 |-> <<NOON, FATHA>>], <<"hafs">>)
    /\ Idle

\* normalizeArabic(s, o)
Normalize(s, o) ==
    /\ op = "idle"
    /\ op' = "normalizeArabic"
    /\ text' = s
    /\ result' = [options |-> o, output |-> normalizeArabic(s, o)]
    /\ UNCHANGED <<reference, index>>

\* normalizeArabic(normalizeArabic(s, o), o): the output is normalized again
\* under the same options.
Renormalize ==
    /\ op = "normalizeArabic"
    /\ op' = "renormalized"
    /\ result' = [options |-> result.options, output |-> result.output,
                  again |-> normalizeArabic(result.output, result.options)]
    /\ UNCHANGED <<text, reference, index>>

\* some call normalizeArabic(s, o)
NormalizeCall ==
    /\ op = "idle"
    /\ \E s \in Texts(NormAlphabet, MaxNormLen), o \in OptionSets : Normalize(s, o)

NextNormalize == NormalizeCall \/ Renormalize \/ Return

SpecNormalize == InitNormalize /\ [][NextNormalize]_vars

\* C1: normalizeArabic is idempotent for every fixed option set: normalizing
\* the output again under the same options gives the output back.
C1_NormalizeIdempotent ==
    op = "renormalized" => result.again = result.output

(***************************************************************************)
(* a validate that keeps what it looked up                                 *)
(***************************************************************************)
ValidateAndRemember(t) ==
    /\ op = "idle"
    /\ op' = "validate"
    /\ text' = t
    /\ result' = validate(t)
    /\ normalizedVerseMap' =
           MapPush(normalizedVerseMap, normalizeFabrication(Trim[t]), verses[1])
    /\ UNCHANGED <<reference, verses, riwayaVerses, loadedRiwayat, multiRiwaya,
                   exactTextMap, normalizedRiwayaMap, normalizedCorpus>>

(***************************************************************************)
(* validate                                                                *)
(***************************************************************************)
Validate(t) ==
    /\ op = "idle"
    /\ op' = "validate"
    /\ text' = t
    /\ result' = validate(t)
    /\ UNCHANGED <<reference, index>>

\* some call validate(t)
ValidateCall ==
    /\ op = "idle"
    /\ \E t \in Texts(ValidateAlphabet, MaxTextLen) : Validate(t)

NextValidate == ValidateCall \/ Return

SpecValidate == Init /\ [][NextValidate]_vars

\* The entries validate searches, in the order they were indexed: the primary
\* verses when one riwaya is loaded, the rows of the loaded riwayat otherwise.
IndexedEntries ==
    IF multiRiwaya
    THEN Flatten([r \in 1..Len(loadedRiwayat) |-> riwayaVerses[loadedRiwayat[r]]])
    ELSE verses

\* the primary riwaya is among the indexed entries
PrimaryIndexed == ~multiRiwaya \/ \E r \in 1..Len(loadedRiwayat) : loadedRiwayat[r] = "hafs"

\* the first indexed entry with the text t
FirstIndexed(t) ==
    LET at == {i \in 1..Len(IndexedEntries) : IndexedEntries[i].text = t}
    IN  IndexedEntries[CHOOSE i \in at : \A j \in at : i <= j]

\* the lookup normalization of a text
Lookup(t) == normalizeArabic(t, NORMALIZER_DEFAULTS)

\* t is the whole text of the entry e, as written or after lookup normalization
WholeVerse(t, e) == t = e.text \/ Lookup(t) = Lookup(e.text)

\* C2 as stated: for every verse v of the reference corpus and every
\* configuration, validate(v.text) is 'exact' with v's own reference.
C2_ExactRoundTripOwnReference ==
    \A i \in 1..Len(verses) :
        (op = "validate" /\ text = verses[i].text)
            => /\ result.matchType = "exact"
               /\ "reference" \in DOMAIN result
               /\ result.reference = ReferenceOf(verses[i])

\* C2: for every verse v of the primary corpus, when the primary riwaya is
\* indexed (one riwaya loaded, or several with 'hafs' among them),
\* validate(v.text) is valid and 'exact', the matched verse has v's text, and
\* the reference is that of the first indexed entry whose text is identical to
\* v.text (v's own when no earlier entry has the same text).
C2_ExactRoundTripFirstIndexed ==
    \A i \in 1..Len(verses) :
        (op = "validate" /\ text = verses[i].text /\ PrimaryIndexed)
            => /\ result.isValid
               /\ result.matchType = "exact"
               /\ result.matchedVerse.text = verses[i].text
               /\ result.reference = ReferenceOf(FirstIndexed(text))

\* validate(v.text) answered with the reference of an earlier verse that has
\* the same text
C2_Witness ==
    \E i \in 1..Len(verses) :
        /\ op = "validate" /\ text = verses[i].text /\ PrimaryIndexed
        /\ result.matchType = "exact"
        /\ result.reference # ReferenceOf(verses[i])

StrictSpan(t, u) ==
    /\ t # <<>> /\ Len(t) < Len(u)
    /\ \E k \in 0..(Len(u) - Len(t)) : SubSeq(u, k + 1, k + Len(t)) = t

\* the input is a strict prefix or inner span of an indexed verse
SpanOfIndexed == \E i \in 1..Len(IndexedEntries) : StrictSpan(Trim[text], IndexedEntries[i].text)

\* C4 as stated: a valid input is a whole indexed verse, as written or after
\* lookup normalization, and an input that is a strict prefix or inner span of
\* a verse and is not itself the text of a whole verse is invalid with
\* matchType 'none'.
C4_WholeVerseOnly ==
    op = "validate" =>
        /\ result.isValid =>
               \E i \in 1..Len(IndexedEntries) : WholeVerse(Trim[text], IndexedEntries[i])
        /\ (/\ SpanOfIndexed
            /\ \A i \in 1..Len(IndexedEntries) : Trim[text] # IndexedEntries[i].text)
               => (~result.isValid /\ result.matchType = "none")

\* C4: a valid input is a whole indexed verse, as written or after lookup
\* normalization, and an input that is a strict prefix or inner span of a
\* verse and neither equals nor lookup-normalizes to the whole text of an
\* indexed verse is invalid with matchType 'none'.
C4_WholeVerseOrItsNormalForm ==
    op = "validate" =>
        /\ result.isValid =>
               \E i \in 1..Len(IndexedEntries) : WholeVerse(Trim[text], IndexedEntries[i])
        /\ (/\ SpanOfIndexed
            /\ \A i \in 1..Len(IndexedEntries) : ~WholeVerse(Trim[text], IndexedEntries[i]))
               => (~result.isValid /\ result.matchType = "none")

\* a strict prefix of a verse, of two characters or more, rejected
C4_Witness ==
    /\ op = "validate"
    /\ \E i \in 1..Len(IndexedEntries) :
           /\ Len(Trim[text]) >= 2 /\ Len(Trim[text]) < Len(IndexedEntries[i].text)
           /\ SubSeq(IndexedEntries[i].text, 1, Len(Trim[text])) = Trim[text]
    /\ ~result.isValid /\ result.matchType = "none"

\* C5: an input with no character in the Arabic ranges (the empty and the
\* whitespace-only input included) is invalid with matchType 'none' and has
\* neither matchedVerse nor reference, in every configuration.
C5_NonArabicRejected ==
    (op = "validate" /\ \A k \in 1..Len(text) : text[k] \notin ArabicRange)
        => /\ ~result.isValid
           /\ result.matchType = "none"
           /\ "matchedVerse" \notin DOMAIN result
           /\ "reference" \notin DOMAIN result

\* an input without Arabic-range characters whose normalization is that of an
\* indexed verse, rejected
C5_Witness ==
    /\ op = "validate"
    /\ text # <<>> /\ \A k \in 1..Len(text) : text[k] \notin ArabicRange
    /\ \E i \in 1..Len(IndexedEntries) : Lookup(text) = Lookup(IndexedEntries[i].text)
    /\ ~result.isValid

\* C6: in every validate result, 'exact' means the trimmed input is identical
\* to matchedVerse.text, and 'normalized' means no indexed text is identical
\* to the trimmed input while the lookup normalizations of the input and of
\* matchedVerse.text are equal.
C6_MatchTypeSound ==
    op = "validate" =>
        /\ result.matchType = "exact" => Trim[text] = result.matchedVerse.text
        /\ result.matchType = "normalized" =>
               /\ \A i \in 1..Len(IndexedEntries) : Trim[text] # IndexedEntries[i].text
               /\ Lookup(Trim[text]) = Lookup(result.matchedVerse.text)

\* several riwayat loaded, and an input matched after normalization only
C6_Witness ==
    /\ op = "validate" /\ multiRiwaya
    /\ result.matchType = "normalized"
    /\ Trim[text] # result.matchedVerse.text

(***************************************************************************)
(* validateAgainst                                                         *)
(***************************************************************************)
\* "s:a" and "s:a-b" as written by a caller
SingleRef(s, a) == NumberToString(s) \o <<COLON>> \o NumberToString(a)
RangeRef(s, a, b) == SingleRef(s, a) \o <<HYPHEN>> \o NumberToString(b)

\* the well-formed references with numbers up to MaxRefNumber
StructuredRefs ==
    {SingleRef(s, a) : s \in 1..MaxRefNumber, a \in 1..MaxRefNumber}
    \cup {RangeRef(c[1], c[2], c[3]) :
            c \in (1..MaxRefNumber) \X (1..MaxRefNumber) \X (1..MaxRefNumber)}

\* the texts of the corpus a caller may cite: the verses, the ranges of two
\* verses or more, and the rows of the loaded riwayat
CitableTexts ==
    {verses[i].text : i \in 1..Len(verses)}
    \cup {getVerseRange(c[1], c[2], c[3])[1].text :
            c \in {d \in (1..MaxRefNumber) \X (1..MaxRefNumber) \X (1..MaxRefNumber) :
                      d[2] < d[3] /\ getVerseRange(d[1], d[2], d[3]) # <<>>}}
    \cup UNION {{riwayaVerses[r][i].text : i \in 1..Len(riwayaVerses[r])} :
                  r \in DOMAIN riwayaVerses}

\* what a caller may make of a text t: t itself, t with a mark or a space
\* after it, its prefixes, t with one character replaced, and t or a prefix
\* of it after a hamza
Perturb(t) ==
    {t, t \o <<FATHA>>, t \o <<SPACE>>}
    \cup {SubSeq(t, 1, k) : k \in 1..(Len(t) - 1)}
    \cup {[t EXCEPT ![k] = LATIN_X] : k \in 1..Len(t)}
    \cup {<<HAMZA>> \o SubSeq(t, 1, k) : k \in 1..Len(t)}

AgainstTexts ==
    UNION {Perturb(t) : t \in CitableTexts} \cup Texts(ValidateAlphabet, MaxAgainstLen)

ValidateAgainst(t, ref) ==
    /\ op = "idle"
    /\ op' = "validateAgainst"
    /\ text' = t
    /\ reference' = ref
    /\ result' = validateAgainst(t, ref)
    /\ UNCHANGED index

\* some call validateAgainst(t, ref) with a well-formed reference
ValidateAgainstCall ==
    /\ op = "idle"
    /\ \E t \in AgainstTexts, ref \in StructuredRefs : ValidateAgainst(t, ref)

\* some call validateAgainst(t, ref) with any short string for a reference
ValidateAgainstAnyReference ==
    /\ op = "idle"
    /\ \E t \in {verses[i].text : i \in 1..Len(verses)}
                   \cup Texts(ValidateAlphabet, MaxAgainstLen),
          ref \in Texts(RefAlphabet, MaxRefLen) : ValidateAgainst(t, ref)

NextAgainst == ValidateAgainstCall \/ ValidateAgainstAnyReference \/ Return

SpecAgainst == Init /\ [][NextAgainst]_vars

\* a non-empty run of the digits 0-9
IsNumeral(d) == d # <<>> /\ \A k \in 1..Len(d) : \E n \in 1..10 : DigitChar[n] = d[k]

\* the number a numeral writes
NumeralValue(d) ==
    LET value[k \in 0..Len(d)] ==
            IF k = 0 THEN 0
            ELSE 10 * value[k - 1] + (CHOOSE n \in 0..9 : DigitChar[n + 1] = d[k])
    IN  value[Len(d)]

\* What a reference cites, as <<surah, startAyah, endAyah>>: "s:a" cites
\* <<s, a, a>> and "s:a-b" cites <<s, a, b>>; any other string cites nothing.
Citations(ref) ==
    {<<NumeralValue(SubSeq(ref, 1, i - 1)), NumeralValue(SubSeq(ref, i + 1, Len(ref))),
       NumeralValue(SubSeq(ref, i + 1, Len(ref)))>> :
        i \in {k \in 1..Len(ref) :
                  /\ ref[k] = COLON
                  /\ IsNumeral(SubSeq(ref, 1, k - 1))
                  /\ IsNumeral(SubSeq(ref, k + 1, Len(ref)))}}
    \cup
    {<<NumeralValue(SubSeq(ref, 1, p[1] - 1)),
       NumeralValue(SubSeq(ref, p[1] + 1, p[2] - 1)),
       NumeralValue(SubSeq(ref, p[2] + 1, Len(ref)))>> :
        p \in {q \in (1..Len(ref)) \X (1..Len(ref)) :
                  /\ q[1] < q[2]
                  /\ ref[q[1]] = COLON /\ ref[q[2]] = HYPHEN
                  /\ IsNumeral(SubSeq(ref, 1, q[1] - 1))
                  /\ IsNumeral(SubSeq(ref, q[1] + 1, q[2] - 1))
                  /\ IsNumeral(SubSeq(ref, q[2] + 1, Len(ref)))}}

HasVerse(surah, ayah) ==
    \E i \in 1..Len(verses) : verses[i].surah = surah /\ verses[i].ayah = ayah

VerseTextAt(surah, ayah) ==
    verses[CHOOSE i \in 1..Len(verses) :
               verses[i].surah = surah /\ verses[i].ayah = ayah].text

\* the citation names verses the primary corpus has, first to last
GoodAddress(c) == c[2] <= c[3] /\ \A ayah \in c[2]..c[3] : HasVerse(c[1], ayah)

\* the text at a good address: the verse, or the verses joined by spaces
ExpectedAt(c) == Join([k \in 1..(c[3] - c[2] + 1) |-> VerseTextAt(c[1], c[2] + k - 1)])

\* C7: validateAgainst answers every bad address with a no-match: for a
\* reference that is not of the form s:a or s:a-b, that names a surah or ayah
\* the corpus lacks, whose start is after its end, or whose range has a
\* missing ayah, the result is invalid with matchType 'none' and without
\* matchedVerse, whatever the input text.
C7_BadAddressIsNoMatch ==
    (op = "validateAgainst" /\ \A c \in Citations(reference) : ~GoodAddress(c))
        => /\ ~result.isValid
           /\ result.matchType = "none"
           /\ "matchedVerse" \notin DOMAIN result

\* a range whose first verse exists and is the input, with a missing ayah
\* after it
C7_Witness ==
    /\ op = "validateAgainst"
    /\ \E c \in Citations(reference) :
           /\ c[2] < c[3] /\ HasVerse(c[1], c[2]) /\ ~GoodAddress(c)
           /\ text = VerseTextAt(c[1], c[2])
    /\ ~result.isValid /\ result.matchType = "none"

\* x is y as written or after lookup normalization
Matches(x, y) == x = y \/ Lookup(x) = Lookup(y)

\* the input matches the text at the cited address: that of the primary
\* corpus, or, with several riwayat loaded and one verse cited, that of a
\* loaded riwaya
MatchesAtCited ==
    \E c \in Citations(reference) :
        /\ GoodAddress(c)
        /\ \/ Matches(Trim[text], ExpectedAt(c))
           \/ /\ multiRiwaya /\ c[2] = c[3]
              /\ \E r \in 1..Len(loadedRiwayat) :
                     \E i \in 1..Len(riwayaVerses[loadedRiwayat[r]]) :
                         LET row == riwayaVerses[loadedRiwayat[r]][i]
                         IN  /\ row.surah = c[1] /\ row.ayah = c[2]
                             /\ Matches(Trim[text], row.text)

\* C8: validateAgainst is citation-scoped: a valid result carries the cited
\* reference string and the input matches, exactly or after normalization,
\* the text at the cited address in the primary corpus or in a loaded riwaya;
\* an input that does not match there is invalid, and a reference in its
\* result is the cited one.
C8_CitationScoped ==
    op = "validateAgainst" =>
        /\ result.isValid => (result.reference = reference /\ MatchesAtCited)
        /\ ~MatchesAtCited =>
               /\ ~result.isValid
               /\ "reference" \in DOMAIN result => result.reference = reference

\* an input that is a verse of the corpus, cited at another address where it
\* does not match
C8_Witness ==
    /\ op = "validateAgainst"
    /\ \E c \in Citations(reference) : GoodAddress(c)
    /\ ~MatchesAtCited
    /\ \E i \in 1..Len(verses) : verses[i].text = text
    /\ ~result.isValid /\ result.reference = reference

\* the least index (from 0) at which x and y differ, the length of the
\* shorter when one is a prefix of the other
FirstDifference(x, y) ==
    LET minLen == IF Len(x) < Len(y) THEN Len(x) ELSE Len(y)
        differ == {i \in 1..minLen : x[i] # y[i]}
    IN  IF differ = {} THEN minLen
        ELSE (CHOOSE i \in differ : \A j \in differ : i <= j) - 1

\* x is a strict prefix of y
StrictPrefix(x, y) == Len(x) < Len(y) /\ SubSeq(y, 1, Len(x)) = x

\* C9 as stated: on a no-match, for an input text that agrees with the
\* expected verse text on its first k characters and differs at index k,
\* mismatchIndex is k, and for an input text that is a strict prefix of the
\* expected text, mismatchIndex is the length of that prefix.
C9_MismatchIndexInText ==
    (op = "validateAgainst" /\ "mismatchIndex" \in DOMAIN result) =>
        \A c \in Citations(reference) :
            LET input == Trim[text]
                expected == ExpectedAt(c)
                k == FirstDifference(input, expected)
            IN  (/\ GoodAddress(c)
                 /\ \/ k < Len(input) /\ k < Len(expected)
                    \/ StrictPrefix(input, expected))
                    => result.mismatchIndex = k

\* C9: on a no-match, mismatchIndex locates the divergence of the lookup
\* normalizations of the input and of the expected text: when they agree on
\* their first k characters and differ at index k, mismatchIndex is k, and
\* when one is a strict prefix of the other, mismatchIndex is the length of
\* the shorter.
C9_MismatchIndexInLookupForm ==
    (op = "validateAgainst" /\ "mismatchIndex" \in DOMAIN result) =>
        \A c \in Citations(reference) :
            LET input == Lookup(Trim[text])
                expected == Lookup(ExpectedAt(c))
                m == result.mismatchIndex
            IN  GoodAddress(c) =>
                    /\ m >= 0 /\ m <= Len(input) /\ m <= Len(expected)
                    /\ SubSeq(input, 1, m) = SubSeq(expected, 1, m)
                    /\ \/ m < Len(input) /\ m < Len(expected) /\ input[m + 1] # expected[m + 1]
                       \/ m = Len(input) /\ m < Len(expected)
                       \/ m = Len(expected) /\ m < Len(input)

\* a no-match whose mismatchIndex is inside both lookup forms and is not the
\* index at which the texts as written differ
C9_Witness ==
    /\ op = "validateAgainst" /\ "mismatchIndex" \in DOMAIN result
    /\ \E c \in Citations(reference) :
           /\ GoodAddress(c)
           /\ result.mismatchIndex < Len(Lookup(Trim[text]))
           /\ result.mismatchIndex < Len(Lookup(ExpectedAt(c)))
           /\ result.mismatchIndex # FirstDifference(Trim[text], ExpectedAt(c))

(***************************************************************************)
(* analyzeFabrication                                                      *)
(***************************************************************************)
AnalyzeFabrication(t) ==
    /\ op = "idle"
    /\ op' = "analyzeFabrication"
    /\ text' = t
    /\ result' = analyzeFabrication(t)
    /\ UNCHANGED <<reference, index>>

\* some call analyzeFabrication(t)
AnalyzeFabricationCall ==
    /\ op = "idle"
    /\ \E t \in Texts(FabAlphabet, MaxFabLen) : AnalyzeFabrication(t)

NextFabrication == AnalyzeFabricationCall \/ Return

SpecFabrication == Init /\ [][NextFabrication]_vars

\* C10: analyzeFabrication classifies every whitespace-delimited word of the
\* normalized input once and in order: the words of the result, joined by
\* single spaces, are the normalized input, none is empty or holds
\* whitespace, totalWords is their number, fabricatedWords the number of
\* those marked fabricated, and fabricatedRatio is fabricatedWords over
\* totalWords, 0 when there is no word.
C10_FabricationPartition ==
    op = "analyzeFabrication" =>
        LET words == result.words
            stats == result.stats
        IN  /\ Join([i \in 1..Len(words) |-> words[i].word]) = result.normalizedInput
            /\ \A i \in 1..Len(words) :
                   /\ words[i].word # <<>>
                   /\ \A k \in 1..Len(words[i].word) : words[i].word[k] \notin Whitespace
            /\ stats.totalWords = Len(words)
            /\ stats.fabricatedWords =
                   Cardinality({i \in 1..Len(words) : words[i].isFabricated})
            /\ stats.fabricatedRatio.den > 0
            /\ IF stats.totalWords = 0
               THEN stats.fabricatedRatio.num = 0
               ELSE stats.fabricatedRatio.num * stats.totalWords
                        = stats.fabricatedWords * stats.fabricatedRatio.den

\* three words: one fabricated, and two found together in the corpus
C10_Witness ==
    /\ op = "analyzeFabrication"
    /\ Len(result.words) = 3
    /\ Cardinality({i \in 1..3 : result.words[i].isFabricated}) = 1
    /\ result.stats.fabricatedWords = 1

(***************************************************************************)
(* analyzeFabrication on a corpus with a longer word, and on the texts of  *)
(* the corpus itself.                                                      *)
(***************************************************************************)
LongVerseTexts == {<<NOON, BEH, NOON>>, <<NOON, FATHA>>, <<BEH, SPACE, NOON>>}

InitLongWords ==
    /\ \E f \in [1..2 -> LongVerseTexts], r \in RiwayatOptions : Construct(f, r)
    /\ Idle

\* the texts of the reference data: the primary verses and the rows of the
\* loaded riwayat
ReferenceTexts ==
    {verses[i].text : i \in 1..Len(verses)}
    \cup UNION {{riwayaVerses[r][i].text : i \in 1..Len(riwayaVerses[r])} :
                  r \in DOMAIN riwayaVerses}

\* some call analyzeFabrication(t) with a text of the reference data
AnalyzeReferenceText ==
    /\ op = "idle"
    /\ \E t \in ReferenceTexts : AnalyzeFabrication(t)

NextFabricationCorpus == AnalyzeFabricationCall \/ AnalyzeReferenceText \/ Return

SpecFabricationCorpus == InitLongWords /\ [][NextFabricationCorpus]_vars

\* the words of the corpus: the whitespace-delimited tokens of the indexed
\* texts
CorpusWords == Range(SplitWords(normalizedCorpus, <<>>))

\* x occurs in y as a run of consecutive characters
OccursIn(x, y) == \E i \in 1..(Len(y) + 1) : \E j \in (i - 1)..Len(y) : SubSeq(y, i, j) = x

IndexedTexts ==
    {verses[i].text : i \in 1..Len(verses)}
    \cup (IF multiRiwaya
          THEN UNION {{riwayaVerses[r][i].text : i \in 1..Len(riwayaVerses[r])} :
                        r \in DOMAIN riwayaVerses \ {"hafs"}}
          ELSE {})

\* C12: every reference verse is fully non-fabricated: for the text of a
\* primary verse, and with several riwayat loaded for the text of a row of a
\* loaded riwaya other than the primary, analyzeFabrication reports
\* fabricatedWords 0 and marks no word.
C12_ReferenceTextNotFabricated ==
    (op = "analyzeFabrication" /\ text \in IndexedTexts) =>
        /\ result.stats.fabricatedWords = 0
        /\ \A i \in 1..Len(result.words) : ~result.words[i].isFabricated

\* the text of a row of a loaded riwaya that no primary verse has, analyzed
\* with several riwayat loaded
C12_Witness ==
    /\ op = "analyzeFabrication"
    /\ multiRiwaya
    /\ text \in IndexedTexts
    /\ \A i \in 1..Len(verses) : verses[i].text # text
    /\ Len(result.words) > 0
    /\ result.stats.fabricatedWords = 0

(***************************************************************************)
(* The loaded riwayat in validate and validateAgainst.                     *)
(***************************************************************************)
\* the texts of the rows of the loaded riwayat
LoadedTexts ==
    UNION {{riwayaVerses[r][i].text : i \in 1..Len(riwayaVerses[r])} :
             r \in DOMAIN riwayaVerses}

\* C13: the text of a row of a loaded riwaya validates, whether the riwaya
\* is loaded alone or with others: validate(row.text).isValid is true.
C13_LoadedVariantTextValidates ==
    (op = "validate" /\ text \in LoadedTexts) => result.isValid

\* the rows a loaded riwaya has at the address <<surah, ayah>>
LoadedRowsAt(surah, ayah) ==
    {row \in UNION {Range(riwayaVerses[r]) : r \in DOMAIN riwayaVerses} :
        row.surah = surah /\ row.ayah = ayah}

C15_VariantMatchesPopulated ==
    (op = "validateAgainst" /\ multiRiwaya /\ result.isValid) =>
        /\ "riwayaMatches" \in DOMAIN result
        /\ Len(result.riwayaMatches) >= 1
        /\ \A k \in 1..Len(result.riwayaMatches) :
               LET m == result.riwayaMatches[k]
               IN  /\ m.riwaya \in Range(loadedRiwayat)
                   /\ \E c \in Citations(reference) :
                          \E row \in Range(riwayaVerses[m.riwaya]) :
                              /\ row.surah = c[1] /\ row.ayah = c[2]
                              /\ Matches(Trim[text], row.text)

(***************************************************************************)
(* validate on reference data in which verses repeat: several verses with  *)
(* one text, and several texts with one normal form.                       *)
(***************************************************************************)
\* versesData
RepeatedVersesData ==
    <<Verse(1, 1, 1, <<NOON, FATHA>>, 1), Verse(2, 1, 2, <<NOON>>, 1),
      Verse(3, 2, 1, <<NOON, FATHA>>, 2), Verse(4, 2, 2, <<NOON, FATHA, FATHA>>, 2),
      Verse(5, 3, 1, <<BEH>>, 3), Verse(6, 3, 2, <<BEH, FATHA>>, 3)>>
\* warsh.min.json
RepeatedWarshData ==
    <<Row(1, 1, 1, <<NOON>>), Row(2, 1, 2, <<NOON, FATHA>>),
      Row(3, 2, 1, <<NOON, FATHA>>), Row(4, 2, 2, <<BEH, FATHA>>),
      Row(5, 3, 1, <<BEH>>)>>

REPEATED_DATA_MAP ==
    [hafs |-> HafsRows(RepeatedVersesData), warsh |-> RepeatedWarshData,
     qalun |-> QalunData]

RepeatedRiwayatOptions ==
    {<<"hafs">>, <<"warsh">>, <<"hafs", "warsh">>, <<"warsh", "hafs">>,
     <<"hafs", "warsh", "qalun">>}

InitRepeated ==
    /\ \E r \in RepeatedRiwayatOptions :
           ConstructOn(RepeatedVersesData, REPEATED_DATA_MAP, r)
    /\ Idle

SpecRepeated == InitRepeated /\ [][NextValidate]_vars

\* the place of a riwaya in the riwayat option, and of a row in its file
RiwayaIndex(id) == CHOOSE k \in 1..Len(loadedRiwayat) : loadedRiwayat[k] = id
RowIndex(id, surah, ayah) ==
    CHOOSE i \in 1..Len(riwayaVerses[id]) :
        riwayaVerses[id][i].surah = surah /\ riwayaVerses[id][i].ayah = ayah

\* the entry of m1 is collected before that of m2: the riwayat in the order
\* of the option, the rows of one riwaya in the order of its file
CollectedBefore(m1, m2) ==
    \/ RiwayaIndex(m1.riwaya) < RiwayaIndex(m2.riwaya)
    \/ /\ m1.riwaya = m2.riwaya
       /\ RowIndex(m1.riwaya, m1.verse.surah, m1.verse.ayah)
              < RowIndex(m2.riwaya, m2.verse.surah, m2.verse.ayah)

\* C16: in the riwayaMatches of validate every 'exact' entry is before every
\* 'normalized' entry, entries of one match type are in the order they were
\* collected, and matchType, matchedVerse and reference of the result are
\* those of the first entry.
C16_ExactFirstStable ==
    (op = "validate" /\ "riwayaMatches" \in DOMAIN result) =>
        LET ms == result.riwayaMatches
        IN  /\ Len(ms) >= 1
            /\ \A k \in 1..Len(ms) : ms[k].matchType \in {"exact", "normalized"}
            /\ \A i, j \in 1..Len(ms) :
                   i < j => /\ ~(ms[i].matchType = "normalized" /\ ms[j].matchType = "exact")
                            /\ ms[i].matchType = ms[j].matchType
                                   => CollectedBefore(ms[i], ms[j])
            /\ result.matchType = ms[1].matchType
            /\ result.matchedVerse = ms[1].verse
            /\ result.reference = ReferenceOf(ms[1].verse)

\* two exact entries and two normalized entries in one list
C16_Witness ==
    /\ op = "validate" /\ "riwayaMatches" \in DOMAIN result
    /\ Cardinality({k \in 1..Len(result.riwayaMatches) :
                       result.riwayaMatches[k].matchType = "exact"}) >= 2
    /\ Cardinality({k \in 1..Len(result.riwayaMatches) :
                       result.riwayaMatches[k].matchType = "normalized"}) >= 2

\* the entries of the list ms for the row of riwaya id at <<surah, ayah>>
EntriesFor(ms, id, surah, ayah) ==
    {k \in 1..Len(ms) :
        ms[k].riwaya = id /\ ms[k].verse.surah = surah /\ ms[k].verse.ayah = ayah}

KeyVerses(t) == SelectSeq(verses, LAMBDA v : Lookup(v.text) = Lookup(Trim[t]))

\* the lesser of two numbers
Least(a, b) == IF a < b THEN a ELSE b

\* C18 as stated: with one riwaya loaded and a lookup key that maps to
\* several verses, a normalized match returns the first as matchedVerse and
\* the remaining matches, not the primary itself, at most maxSuggestions of
\* them, as suggestions.
C18_SuggestionsAreTheRemainder ==
    (/\ op = "validate" /\ ~multiRiwaya /\ result.matchType = "normalized"
     /\ Len(KeyVerses(text)) > 1) =>
        LET found == KeyVerses(text)
        IN  /\ result.matchedVerse = found[1]
            /\ "suggestions" \in DOMAIN result
            /\ Len(result.suggestions) = Least(Len(found) - 1, maxSuggestions)
            /\ \A k \in 1..Len(result.suggestions) :
                   result.suggestions[k].verse = found[k + 1]

\* C18: with one riwaya loaded and a lookup key that maps to several verses,
\* a normalized match returns the first as matchedVerse and lists the first
\* maxSuggestions matches in corpus order, the primary itself at their head,
\* as suggestions; with one verse for the key there are no suggestions.
C18_SuggestionsFromTheFirst ==
    (op = "validate" /\ ~multiRiwaya /\ result.matchType = "normalized") =>
        LET found == KeyVerses(text)
        IN  /\ Len(found) >= 1
            /\ result.matchedVerse = found[1]
            /\ "suggestions" \in DOMAIN result <=> Len(found) > 1
            /\ "suggestions" \in DOMAIN result =>
                   /\ Len(result.suggestions) = Least(Len(found), maxSuggestions)
                   /\ \A k \in 1..Len(result.suggestions) :
                          /\ result.suggestions[k].verse = found[k]
                          /\ result.suggestions[k].reference = ReferenceOf(found[k])

\* a lookup key with more verses than maxSuggestions: the suggestions are
\* maxSuggestions and start with the matched verse
C18_Witness ==
    /\ op = "validate" /\ ~multiRiwaya /\ result.matchType = "normalized"
    /\ Len(KeyVerses(text)) > maxSuggestions
    /\ "suggestions" \in DOMAIN result
    /\ Len(result.suggestions) = maxSuggestions
    /\ result.suggestions[1].verse = result.matchedVerse

\* the matches of a result of validate (none without the list)
MatchesOf(res) == IF "riwayaMatches" \in DOMAIN res THEN res.riwayaMatches ELSE <<>>

\* the distinct addresses the matches span
MatchedAddresses(ms) == {ReferenceOf(ms[k].verse) : k \in 1..Len(ms)}

\* C19 as stated: with several riwayat loaded, suggestions is present
\* exactly when the matches span more than one distinct (surah, ayah), and
\* then holds one entry for each distinct matched address, with pairwise
\* distinct references.
C19_SuggestionForEachAddress ==
    (op = "validate" /\ multiRiwaya) =>
        LET addresses == MatchedAddresses(MatchesOf(result))
        IN  /\ "suggestions" \in DOMAIN result <=> Cardinality(addresses) > 1
            /\ "suggestions" \in DOMAIN result =>
                   /\ Len(result.suggestions) = Cardinality(addresses)
                   /\ {result.suggestions[k].reference :
                          k \in 1..Len(result.suggestions)} = addresses

\* C19: with several riwayat loaded, suggestions is present exactly when the
\* matches span more than one distinct (surah, ayah), and then holds one
\* entry for each of the first maxSuggestions distinct matched addresses, in
\* the order the addresses first occur in riwayaMatches, with pairwise
\* distinct references.
C19_SuggestionForFirstAddresses ==
    (op = "validate" /\ multiRiwaya) =>
        LET ms == MatchesOf(result)
            addresses == MatchedAddresses(ms)
        IN  /\ "suggestions" \in DOMAIN result <=> Cardinality(addresses) > 1
            /\ "suggestions" \in DOMAIN result =>
                   LET sg == result.suggestions
                       earlier(k) == {sg[j].reference : j \in 1..(k - 1)}
                   IN  /\ Len(sg) = Least(Cardinality(addresses), maxSuggestions)
                       /\ \A j, k \in 1..Len(sg) :
                              j # k => sg[j].reference # sg[k].reference
                       /\ \A k \in 1..Len(sg) :
                              /\ sg[k].reference = ReferenceOf(sg[k].verse)
                              /\ \E p \in 1..Len(ms) :
                                     /\ ms[p].verse = sg[k].verse
                                     /\ ReferenceOf(ms[p].verse) \notin earlier(k)
                                     /\ \A q \in 1..(p - 1) :
                                            ReferenceOf(ms[q].verse) \in earlier(k)

\* matches that span more addresses than maxSuggestions, and suggestions
\* for maxSuggestions of them
C19_Witness ==
    /\ op = "validate" /\ multiRiwaya
    /\ Cardinality(MatchedAddresses(MatchesOf(result))) > maxSuggestions
    /\ "suggestions" \in DOMAIN result
    /\ Len(result.suggestions) = maxSuggestions

(***************************************************************************)
(* One validator, any calls in any order.                                  *)
(***************************************************************************)
\* the limits passed to search: one hit, and the default
SearchLimits == {1, 10}

Search(query, limit) ==
    /\ op = "idle"
    /\ op' = "search"
    /\ text' = query
    /\ result' = [limit |-> limit, hits |-> search(query, limit)]
    /\ UNCHANGED <<reference, index>>

\* some call search(query, limit)
SearchCall ==
    /\ op = "idle"
    /\ \E query \in Texts(ValidateAlphabet, MaxSearchLen), limit \in SearchLimits :
           Search(query, limit)

GetVerse(surah, ayah) ==
    /\ op = "idle"
    /\ op' = "getVerse"
    /\ result' = [surah |-> surah, startAyah |-> ayah, endAyah |-> ayah,
                  found |-> getVerse(surah, ayah)]
    /\ UNCHANGED <<text, reference, index>>

GetVerseRange(surah, startAyah, endAyah) ==
    /\ op = "idle"
    /\ op' = "getVerseRange"
    /\ result' = [surah |-> surah, startAyah |-> startAyah, endAyah |-> endAyah,
                  found |-> getVerseRange(surah, startAyah, endAyah)]
    /\ UNCHANGED <<text, reference, index>>

GetSurah(surahNumber) ==
    /\ op = "idle"
    /\ op' = "getSurah"
    /\ result' = [surah |-> surahNumber, found |-> getSurah(surahNumber)]
    /\ UNCHANGED <<text, reference, index>>

\* some call getVerse(surah, ayah)
GetVerseCall ==
    /\ op = "idle"
    /\ \E surah, ayah \in 1..MaxRefNumber : GetVerse(surah, ayah)

\* some call getVerseRange(surah, startAyah, endAyah)
GetVerseRangeCall ==
    /\ op = "idle"
    /\ \E surah, startAyah, endAyah \in 1..MaxRefNumber :
           GetVerseRange(surah, startAyah, endAyah)

\* some call getSurah(surahNumber)
GetSurahCall ==
    /\ op = "idle"
    /\ \E surahNumber \in 1..MaxRefNumber : GetSurah(surahNumber)

NextAnyCall ==
    \/ ValidateCall
    \/ ValidateAgainstCall
    \/ ValidateAgainstAnyReference
    \/ AnalyzeFabricationCall
    \/ SearchCall
    \/ GetVerseCall
    \/ GetVerseRangeCall
    \/ GetSurahCall
    \/ Return

\* the texts of 1:1 and 1:2: two different verses, or one verse twice
AnyCallCorpora ==
    {<<<<NOON, FATHA>>, <<NOON, FATHA, FATHA>>>>, <<<<NOON, FATHA>>, <<NOON, FATHA>>>>}

\* the index is that of a validator just constructed
FreshIndex == \E f \in AnyCallCorpora, r \in RiwayatOptions : Construct(f, r)

InitAnyCall == FreshIndex /\ Idle

SpecAnyCall == InitAnyCall /\ [][NextAnyCall]_vars

\* the result of the call in progress is what the call returns on the index
\* as it is now
ResultOfCall ==
    CASE op = "validate" -> result = validate(text)
      [] op = "validateAgainst" -> result = validateAgainst(text, reference)
      [] op = "analyzeFabrication" -> result = analyzeFabrication(text)
      [] op = "search" -> result.hits = search(text, result.limit)
      [] op = "getVerse" -> result.found = getVerse(result.surah, result.startAyah)
      [] op = "getVerseRange" ->
             result.found = getVerseRange(result.surah, result.startAyah, result.endAyah)
      [] op = "getSurah" -> result.found = getSurah(result.surah)
      [] OTHER -> TRUE

\* C20: the corpus index is written only during construction: no call of
\* validate, validateAgainst, analyzeFabrication, search, getVerse,
\* getVerseRange or getSurah, in any sequence, changes the verse list, a
\* lookup map or the flattened corpus; after any calls the index is that of a
\* validator just constructed, and each call returns what it returns on that
\* index.
C20_IndexReadOnly ==
    /\ [](FreshIndex /\ ResultOfCall)
    /\ [][/\ verses' = verses
          /\ riwayaVerses' = riwayaVerses
          /\ loadedRiwayat' = loadedRiwayat
          /\ multiRiwaya' = multiRiwaya
          /\ normalizedVerseMap' = normalizedVerseMap
          /\ exactTextMap' = exactTextMap
          /\ normalizedRiwayaMap' = normalizedRiwayaMap
          /\ normalizedCorpus' = normalizedCorpus]_vars

\* a call of validate with several riwayat loaded that found and sorted its
\* matches, on an index that is still the constructed one
C20_Witness ==
    /\ op = "validate" /\ multiRiwaya
    /\ result.isValid
    /\ Len(result.riwayaMatches) > 1
    /\ FreshIndex

(***************************************************************************)
(* getVerseRange, one iteration of its loop at a time.                     *)
(***************************************************************************)
\* an ayah number far beyond the last ayah of any surah
MaxAyahAsked == 1000

\* versesData: 1:1, 1:2, 1:3 and 2:1
RangeVersesData ==
    <<Verse(1, 1, 1, <<NOON, FATHA>>, 1), Verse(2, 1, 2, <<BEH>>, 1),
      Verse(3, 1, 3, <<NOON>>, 1), Verse(4, 2, 1, <<BEH, SPACE, NOON>>, 2)>>

RANGE_DATA_MAP ==
    [hafs |-> HafsRows(RangeVersesData), warsh |-> WarshData, qalun |-> QalunData]

InitRange ==
    /\ \E r \in RiwayatOptions : ConstructOn(RangeVersesData, RANGE_DATA_MAP, r)
    /\ Idle

\* the endAyah of a call: a small number, or one far beyond the corpus
EndAyahs == (1..MaxRefNumber) \cup {MaxAyahAsked}

\* the position of a call inside the loop of getVerseRange
InRangeLoop == "getVerseRange loop"

\* the position of validateAgainst when its call of getVerseRange has returned
AfterRange == "validateAgainst after getVerseRange"

\* getVerseRange returns to its caller after the given verse lookups: to the
\* caller of getVerseRange, or to validateAgainst at line 741
ReturnRange(caller, surah, startAyah, endAyah, found, lookups) ==
    /\ op' = (IF caller = "validateAgainst" THEN AfterRange ELSE "getVerseRange")
    /\ result' = [found |-> found, lookups |-> lookups, surah |-> surah,
                  startAyah |-> startAyah, endAyah |-> endAyah]

\* line 891, and line 893 before the first iteration
EnterRange(caller, surah, startAyah, endAyah) ==
    IF startAyah > endAyah
    THEN ReturnRange(caller, surah, startAyah, endAyah, <<>>, 0)
    ELSE /\ op' = InRangeLoop
         /\ result' = [caller |-> caller, surah |-> surah, startAyah |-> startAyah,
                       endAyah |-> endAyah, ayah |-> startAyah, verses |-> <<>>,
                       lookups |-> 0]

\* some call getVerseRange(surah, startAyah, endAyah)
GetVerseRangeEnter ==
    /\ op = "idle"
    /\ \E surah, startAyah \in 1..MaxRefNumber, endAyah \in EndAyahs :
           EnterRange("getVerseRange", surah, startAyah, endAyah)
    /\ UNCHANGED <<text, reference, index>>

\* some call validateAgainst(t, "s:a-b") with a # b, up to its call of
\* getVerseRange (lines 714-741)
ValidateAgainstRangeEnter ==
    /\ op = "idle"
    /\ \E t \in {verses[i].text : i \in 1..Len(verses)},
          surah, startAyah \in 1..MaxRefNumber, endAyah \in EndAyahs :
           /\ startAyah # endAyah
           /\ text' = t
           /\ reference' = RangeRef(surah, startAyah, endAyah)
           /\ EnterRange("validateAgainst", surah, startAyah, endAyah)
    /\ UNCHANGED index

\* an iteration that ends the loop at a missing ayah and keeps the verses
\* gathered so far
RangeIterationKeeping ==
    /\ op = InRangeLoop
    /\ result.ayah <= result.endAyah
    /\ LET verse == getVerse(result.surah, result.ayah)
       IN  /\ op' = op
           /\ result' = [result EXCEPT !.verses = @ \o verse,
                                       !.ayah = IF verse = <<>> THEN result.endAyah + 1
                                                ELSE @ + 1,
                                       !.lookups = @ + 1]
    /\ UNCHANGED <<text, reference, index>>

\* an iteration that goes on to the next ayah after a missing one
RangeIterationOverMissing ==
    /\ op = InRangeLoop
    /\ result.ayah <= result.endAyah
    /\ op' = op
    /\ result' = [result EXCEPT !.verses = @ \o getVerse(result.surah, result.ayah),
                                !.ayah = @ + 1,
                                !.lookups = @ + 1]
    /\ UNCHANGED <<text, reference, index>>

\* one iteration of the loop (lines 893-897)
RangeIteration ==
    /\ op = InRangeLoop
    /\ result.ayah <= result.endAyah
    /\ LET verse == getVerse(result.surah, result.ayah)
       IN  IF verse = <<>>
           THEN ReturnRange(result.caller, result.surah, result.startAyah,
                            result.endAyah, <<>>, result.lookups + 1)
           ELSE /\ op' = op
                /\ result' = [result EXCEPT !.verses = Append(@, verse[1]),
                                            !.ayah = @ + 1,
                                            !.lookups = @ + 1]
    /\ UNCHANGED <<text, reference, index>>

\* the loop is over (lines 893 and 900-904)
RangeExit ==
    /\ op = InRangeLoop
    /\ result.ayah > result.endAyah
    /\ ReturnRange(result.caller, result.surah, result.startAyah, result.endAyah,
                   <<[text |-> Join([i \in 1..Len(result.verses) |->
                                        result.verses[i].text]),
                      verses |-> result.verses]>>,
                   result.lookups)
    /\ UNCHANGED <<text, reference, index>>

\* validateAgainst from the return of getVerseRange on (lines 741-813)
ValidateAgainstAfterRange ==
    /\ op = AfterRange
    /\ op' = "validateAgainst"
    /\ result' = [range |-> result.found, lookups |-> result.lookups,
                  surah |-> result.surah, startAyah |-> result.startAyah,
                  endAyah |-> result.endAyah,
                  answer |-> validateAgainst(text, reference)]
    /\ UNCHANGED <<text, reference, index>>

\* the caller takes the result of a call that has returned
ReturnFromCall == op \notin {InRangeLoop, AfterRange} /\ Return

NextRange ==
    \/ GetVerseRangeEnter
    \/ ValidateAgainstRangeEnter
    \/ RangeIteration
    \/ RangeExit
    \/ ValidateAgainstAfterRange
    \/ ReturnFromCall

SpecRange == InitRange /\ [][NextRange]_vars

\* a call once begun is run to its end
SpecRangeRun == SpecRange /\ WF_vars(RangeIteration) /\ WF_vars(RangeExit)

\* the sum of a list of numbers
RECURSIVE Sum(_)
Sum(ns) == IF ns = <<>> THEN 0 ELSE Head(ns) + Sum(Tail(ns))

\* C21: getVerseRange(surah, startAyah, endAyah) returns undefined exactly
\* when startAyah > endAyah or an ayah of startAyah..endAyah is missing from
\* the surah; otherwise its verses are the ayahs startAyah..endAyah in rising
\* order, endAyah - startAyah + 1 of them, and its text is their texts joined
\* by single spaces, which is the text validateAgainst expects for the range
\* reference: that text validates exactly against the reference, and
\* expectedNormalized is its normalization.
C21_RangeIsTheAyahsJoined ==
    op = "getVerseRange" =>
        LET s == result.surah
            a == result.startAyah
            b == result.endAyah
            range == result.found[1]
            against == validateAgainst(range.text, RangeRef(s, a, b))
        IN  /\ result.found = <<>> <=> (a > b \/ \E ayah \in a..b : ~HasVerse(s, ayah))
            /\ result.found # <<>> =>
                   /\ Len(range.verses) = b - a + 1
                   /\ \A k \in 1..Len(range.verses) :
                          /\ range.verses[k].surah = s
                          /\ range.verses[k].ayah = a + k - 1
                          /\ range.verses[k] \in Range(verses)
                   /\ Len(range.text) =
                          (b - a) + Sum([k \in 1..Len(range.verses) |->
                                            Len(range.verses[k].text)])
                   /\ \A k \in 1..Len(range.verses) :
                          LET before == Sum([j \in 1..(k - 1) |->
                                                Len(range.verses[j].text) + 1])
                              here == range.verses[k].text
                          IN  /\ SubSeq(range.text, before + 1, before + Len(here)) = here
                              /\ k < Len(range.verses) =>
                                     range.text[before + Len(here) + 1] = SPACE
                   /\ against.isValid /\ against.matchType = "exact"
                   /\ against.expectedNormalized = Lookup(range.text)

\* a returned range of three verses
C21_Witness ==
    /\ op = "getVerseRange"
    /\ result.found # <<>>
    /\ Len(result.found[1].verses) = 3
    /\ result.endAyah - result.startAyah = 2

\* the number of ayahs startAyah, startAyah + 1, ... the surah has before the
\* first one it lacks
ConsecutiveFrom(surah, startAyah) ==
    CHOOSE n \in 0..Len(verses) :
        /\ \A k \in 0..(n - 1) : HasVerse(surah, startAyah + k)
        /\ ~HasVerse(surah, startAyah + n)

\* the verse lookups of a range lookup stay within the corpus: inside the
\* loop every lookup so far found its ayah; a lookup that has returned made
\* one lookup for each ayah up to endAyah or up to the first missing one,
\* whichever is first, and returned what getVerseRange returns
LookupsWithinCorpus ==
    /\ op = InRangeLoop =>
           /\ result.lookups = result.ayah - result.startAyah
           /\ result.lookups = Len(result.verses)
           /\ result.lookups <= ConsecutiveFrom(result.surah, result.startAyah)
    /\ (op \in {"getVerseRange", AfterRange, "validateAgainst"}
            /\ result.startAyah <= result.endAyah) =>
           LET n == ConsecutiveFrom(result.surah, result.startAyah)
               asked == result.endAyah - result.startAyah + 1
               range == IF op = "validateAgainst" THEN result.range ELSE result.found
           IN  /\ result.lookups = Least(asked, n + 1)
               /\ result.lookups <= n + 1
               /\ range = <<>> <=> asked > n
               /\ range = getVerseRange(result.surah, result.startAyah, result.endAyah)

\* C30: range lookup ends within the corpus bound: for every surah and every
\* startAyah <= endAyah, however large endAyah is, getVerseRange, called by
\* itself or by validateAgainst on a range reference, returns, and it returns
\* after at most (the number of consecutive ayahs the surah has from
\* startAyah) + 1 verse lookups, the last one at the first missing ayah.
C30_RangeLookupEnds ==
    /\ []LookupsWithinCorpus
    /\ (op = InRangeLoop) ~> (op # InRangeLoop)

\* validateAgainst on a reference from an ayah the surah has to one far
\* beyond its last: three verses found, and the fourth lookup ended the loop
C30_Witness ==
    /\ op = "validateAgainst"
    /\ result.endAyah = MaxAyahAsked
    /\ result.lookups = 4
    /\ result.range = <<>>
    /\ ~result.answer.isValid

ScanAlphabet == {BEH, NOON, SPACE}

\* the position of a call inside the while loop of lines 1006-1038
InScanLoop == "analyzeFabrication loop"

\* words and fabricationWords (lines 990-991) of the text of the call
ScanWords == SplitWords(normalizeArabic(text, NORMALIZER_DEFAULTS), <<>>)
ScanFabricationWords == SplitWords(normalizeFabrication(text), <<>>)

\* some call analyzeFabrication(t), up to the loop (lines 986-1005)
ScanEnter ==
    /\ op = "idle"
    /\ \E t \in Texts(ScanAlphabet, MaxScanLen) :
           /\ text' = t
           /\ IF SplitWords(normalizeArabic(t, NORMALIZER_DEFAULTS), <<>>) = <<>>
              THEN /\ op' = "analyzeFabrication"
                   /\ result' = analyzeFabrication(t)
              ELSE /\ op' = InScanLoop
                   /\ result' = [i |-> 0, results |-> <<>>, at |-> -1, best |-> 0]
    /\ UNCHANGED <<reference, index>>

\* one scan position (lines 1006-1037): the binary search from i, and the
\* words it settles; at and best keep the position and what the search found
ScanPosition ==
    /\ op = InScanLoop
    /\ result.i < Len(ScanFabricationWords)
    /\ LET i == result.i
           best == LongestMatch(ScanFabricationWords, i, 1,
                                Len(ScanFabricationWords) - i, 0)
       IN  result' =
               IF best > 0
               THEN [i |-> i + best, at |-> i, best |-> best,
                     results |-> result.results \o
                         [j \in 1..best |-> [word |-> ScanWords[i + j],
                                             isFabricated |-> FALSE]]]
               ELSE [i |-> i + 1, at |-> i, best |-> best,
                     results |-> Append(result.results,
                                        [word |-> ScanWords[i + 1],
                                         isFabricated |-> TRUE])]
    /\ UNCHANGED <<op, text, reference, index>>

\* the loop is over (lines 1006 and 1040-1050)
ScanExit ==
    /\ op = InScanLoop
    /\ result.i >= Len(ScanFabricationWords)
    /\ op' = "analyzeFabrication"
    /\ LET results == result.results
           fabricatedWords == Len(SelectSeq(results, LAMBDA w : w.isFabricated))
       IN  result' =
               [normalizedInput |-> normalizeArabic(text, NORMALIZER_DEFAULTS),
                words |-> results,
                stats |-> [totalWords |-> Len(results),
                           fabricatedWords |-> fabricatedWords,
                           fabricatedRatio |->
                               IF Len(results) > 0
                               THEN Ratio(fabricatedWords, Len(results))
                               ELSE Ratio(0, 1)]]
    /\ UNCHANGED <<text, reference, index>>

\* the caller takes the result of a call that has returned
ReturnFromScan == op # InScanLoop /\ Return

NextScan == ScanEnter \/ ScanPosition \/ ScanExit \/ ReturnFromScan

\* the corpus of 1:1, 1:2 and 2:1 with two different verses in surah 1
InitScan ==
    /\ \E r \in RiwayatOptions :
           Construct(<<<<NOON, FATHA>>, <<NOON, FATHA, FATHA>>>>, r)
    /\ Idle

SpecScan == InitScan /\ [][NextScan]_vars

\* the L words of ws from position i (0-based), joined by single spaces
Span(ws, i, L) == Join(SubSeq(ws, i + 1, i + L))

\* a linear longest-match scan: the largest L for which the span of L words
\* from i occurs in the corpus, 0 when there is none
LinearLongest(ws, i) ==
    LET found == {L \in 1..(Len(ws) - i) : OccursIn(Span(ws, i, L), normalizedCorpus)}
    IN  IF found = {} THEN 0 ELSE CHOOSE L \in found : \A M \in found : M <= L

\* C23: at every scan position i of analyzeFabrication the binary search
\* returns the largest L in 1..(number of remaining words) for which the
\* space-joined span of L words from i is a substring of the flattened
\* corpus, 0 when there is none, as a linear longest-match scan does; for
\* the span of every shorter length from i is then a substring too.  The
\* result the loop builds is that of analyzeFabrication.
C23_BinarySearchIsLongestMatch ==
    /\ (op = InScanLoop /\ result.at >= 0) =>
           /\ result.best = LinearLongest(ScanFabricationWords, result.at)
           /\ \A L \in 1..(Len(ScanFabricationWords) - result.at) :
                  OccursIn(Span(ScanFabricationWords, result.at, L), normalizedCorpus)
                      <=> L <= result.best
    /\ op = "analyzeFabrication" => result = analyzeFabrication(text)

\* a position with four words to go, of which the search found the first
\* three together in the corpus and not the four
C23_Witness ==
    /\ op = InScanLoop
    /\ result.at >= 0
    /\ Len(ScanFabricationWords) - result.at = 4
    /\ result.best = 3

\* C25: the fabricated flag of a word does not depend on the spans the greedy
\* scan chose: for every input and every word position j, words[j] is marked
\* fabricated exactly when the aggressively normalized j-th word of the input
\* on its own is no substring of the flattened corpus.
C25_FlagOfWordAlone ==
    op = "analyzeFabrication" =>
        /\ Len(result.words) = Len(ScanFabricationWords)
        /\ \A j \in 1..Len(ScanFabricationWords) :
               result.words[j].isFabricated
                   <=> ~OccursIn(ScanFabricationWords[j], normalizedCorpus)

\* a word that is in the corpus, met at a position from which the scan found
\* no longer span, between two fabricated words
C25_Witness ==
    /\ op = "analyzeFabrication"
    /\ Len(result.words) = 3
    /\ result.words[1].isFabricated
    /\ ~result.words[2].isFabricated
    /\ result.words[3].isFabricated

(***************************************************************************)
(* The hamza rules and the normal form of normalizeArabic.                 *)
(***************************************************************************)
\* the text as it reaches the script heuristics of a call
\* normalizeArabic(t, o): after the presentation forms, the controls and the
\* section markers (lines 131-141)
BeforeHeuristics(t, o) ==
    LET composed == IF o.normalizePresentationForms THEN NFKC[t] ELSE t
        bare == IF o.stripBidiControls THEN Remove(composed, BidiControls) ELSE composed
    IN  Remove(bare, SectionMarkers)

\* the text as it reaches the hamza rules: with the superscript alef made an
\* alef (line 149)
BeforeHamzaRules(t, o) == Replace(BeforeHeuristics(t, o), {SUPERSCRIPT_ALEF}, ALEF)

\* the marks U+064B-U+065F
Marks == {FATHA, HAMZA_ABOVE}

\* the character at i is followed, after marks only, by one of Letters
ThenAfterMarks(t, i, Letters) ==
    \E j \in (i + 1)..Len(t) :
        t[j] \in Letters /\ \A k \in (i + 1)..(j - 1) : t[k] \in Marks

\* the character at i comes after a ya, with marks and tatweel only between
AfterYa(t, i) ==
    \E j \in 1..(i - 1) :
        t[j] = YEH /\ \A k \in (j + 1)..(i - 1) : t[k] \in Marks \cup {TATWEEL}

\* what the first applicable rule makes of the character at i
ResolvedAt(t, i) ==
    IF t[i] = HAMZA_ABOVE
    THEN IF ThenAfterMarks(t, i, {WAW}) THEN <<WAW>>
         ELSE IF AfterYa(t, i) THEN <<>>
         ELSE IF ThenAfterMarks(t, i, {ALEF, ALEF_HAMZA, ALEF_WASLA}) THEN <<>>
         ELSE <<ALEF>>
    ELSE IF t[i] = HAMZA /\ ThenAfterMarks(t, i, {ALEF, ALEF_HAMZA, ALEF_WASLA})
    THEN <<>>
    ELSE <<t[i]>>

NotInNormalForm ==
    {FATHA, SMALL_HIGH_SEEN, SUPERSCRIPT_ALEF, HAMZA_ABOVE, TATWEEL,
     ALEF_HAMZA, ALEF_WASLA, ALEF_MAKSURA, TEH_MARBUTA, WAW_HAMZA, YEH_HAMZA,
     ZWJ, RUB_EL_HIZB, ARABIC_INDIC_THREE, EASTERN_THREE}

MoreRiwayatOptions ==
    {<<"hafs", "warsh">>, <<"warsh", "hafs">>, <<"warsh", "qalun">>,
     <<"hafs", "warsh", "qalun">>}

AfterConstruct == "constructed with more riwayat"
ValidatedOnBoth == "validate on both validators"

InitPrimary ==
    /\ \E f \in [1..2 -> VerseTexts] : Construct(f, <<"hafs">>)
    /\ Idle

\* the constructor (lines 558-634) run again on the bundled data, the result
\* of the first validator kept by the caller
ConstructWithMore(riwayat) ==
    LET data == RIWAYA_DATA_MAP([i \in 1..2 |-> verses[i].text])
        entries == RiwayaEntries(riwayat, data)
    IN  /\ op = "validate"
        /\ loadedRiwayat = <<"hafs">>
        /\ op' = AfterConstruct
        /\ result' = [first |-> result]
        /\ verses' = verses
        /\ loadedRiwayat' = riwayat
        /\ multiRiwaya' = (Len(riwayat) > 1)
        /\ riwayaVerses' = [r \in Range(riwayat) |-> data[r]]
        /\ normalizedVerseMap' = BuildNormalizedVerseMap(EmptyMap, verses)
        /\ exactTextMap' = BuildExactTextMap(EmptyMap, entries)
        /\ normalizedRiwayaMap' = BuildNormalizedRiwayaMap(EmptyMap, entries)
        /\ normalizedCorpus' = Join(CorpusTexts(verses, entries))
        /\ UNCHANGED <<text, reference>>

ConstructWithMoreCall == \E r \in MoreRiwayatOptions : ConstructWithMore(r)

\* validate of the same text on the second validator
ValidateOnSecond ==
    /\ op = AfterConstruct
    /\ op' = ValidatedOnBoth
    /\ result' = [first |-> result.first, second |-> validate(text)]
    /\ UNCHANGED <<text, reference, index>>

ReturnFromValidate == op # AfterConstruct /\ Return

NextTwoValidators ==
    ValidateCall \/ ConstructWithMoreCall \/ ValidateOnSecond \/ ReturnFromValidate

SpecTwoValidators == InitPrimary /\ [][NextTwoValidators]_vars

\* C27 as stated: what the validator of the default riwayat accepts, a
\* validator built with any list of two or more riwayat accepts too.
C27_MoreRiwayatNeverInvalidate ==
    (op = ValidatedOnBoth /\ result.first.isValid) => result.second.isValid

\* C27: what the validator of the default riwayat accepts, a validator built
\* with a list of two or more riwayat that includes the default one (hafs)
\* accepts too.
C27_MoreRiwayatWithHafsNeverInvalidate ==
    (op = ValidatedOnBoth /\ result.first.isValid /\ "hafs" \in Range(loadedRiwayat))
        => result.second.isValid

\* the text of a Hafs verse that no Warsh row has, accepted by both validators
C27_Witness ==
    /\ op = ValidatedOnBoth
    /\ loadedRiwayat = <<"warsh", "hafs">>
    /\ text = <<BEH, SPACE, NOON>>
    /\ result.first.isValid
    /\ result.second.isValid


(***************************************************************************)
(* validate, then validateAgainst with the reference validate returned.    *)
(***************************************************************************)
AgainstOwnReference == "validateAgainst after validate"

\* validateAgainst(text, r) for the reference r of the validate just returned
ValidateAgainstOwnReference ==
    /\ op = "validate"
    /\ result.isValid
    /\ op' = AgainstOwnReference
    /\ reference' = result.reference
    /\ result' = [validate |-> result,
                  against |-> validateAgainst(text, result.reference)]
    /\ UNCHANGED <<text, index>>

NextValidateBoth == ValidateCall \/ ValidateAgainstOwnReference \/ Return

\* both sets of bundled data: the one with a verse per text and the one with
\* repeated verses
InitValidateBoth == Init \/ InitRepeated

SpecValidateBoth == InitValidateBoth /\ [][NextValidateBoth]_vars

\* C28 as stated: when validate accepts a text with reference r and
\* matchType m, validateAgainst(text, r) accepts it with the same matchType m.
C28_ValidateAndAgainstAgree ==
    op = AgainstOwnReference =>
        /\ result.against.isValid
        /\ result.against.matchType = result.validate.matchType

\* the primary data has a verse at the reference validate returned
PrimaryHasReference ==
    \E i \in 1..Len(verses) : ReferenceOf(verses[i]) = result.validate.reference

\* C28: when validate accepts a text with reference r and matchType m,
\* validateAgainst(text, r) accepts it if the primary data has a verse at r,
\* and with the same matchType m when the validator has one riwaya loaded.
C28_AgainstAcceptsWhatValidateAccepts ==
    op = AgainstOwnReference =>
        /\ PrimaryHasReference => result.against.isValid
        /\ ~multiRiwaya =>
               /\ result.against.isValid
               /\ result.against.matchType = result.validate.matchType

\* several riwayat loaded, the text of a Warsh row: validate finds it exact,
\* validateAgainst matches the primary verse of the reference after
\* normalization
C28_Witness ==
    /\ op = AgainstOwnReference
    /\ multiRiwaya
    /\ PrimaryHasReference
    /\ result.validate.matchType = "exact"
    /\ result.against.isValid
    /\ result.against.matchType = "normalized"

=============================================================================
